---- MODULE Spec2Model ----
(***************************************************************************)
(* miniredis: a line-oriented key-value server.                            *)
(*                                                                         *)
(* Text is modelled as a sequence of one-character strings, so that        *)
(* splitting on whitespace and upper-casing work on characters as the      *)
(* code does.  The fixed parts of an error message, which contain blanks   *)
(* and therefore can never be (part of) a token, are kept as one element.  *)
(***************************************************************************)
EXTENDS Naturals, Sequences, FiniteSets, TLC

\* ------------------------------------------------------------------ bounds
\* Number of client connections the listener may accept.
NumConns == 2
\* Number of lines all clients together send (Spec).
MaxSent == 3
\* Longest argument list of a line handed to a handler in SpecCmd.
MaxArgs == 3
\* Number of times a command is applied again after its first application.
MaxRepeat == 2
\* Number of lines all clients together have pipelined (SpecPipe).
MaxPipe == 3

\* Number of lines the user types at the interactive client (SpecClient).
MaxInput == 3

Conns == 1..NumConns

\* ------------------------------------------------------------- Option/Result
None == [tag |-> "None"]
Some(v) == [tag |-> "Some", value |-> v]
Ok(v) == [tag |-> "Ok", value |-> v]
Err(e) == [tag |-> "Err", error |-> e]
Unit == <<>>

\* ------------------------------------------------------------ MiniRedisError
StoreLocked == [type |-> "StoreLocked"]
InvalidCommand(command) == [type |-> "InvalidCommand", command |-> command]
InvalidArguments(arguments) == [type |-> "InvalidArguments", arguments |-> arguments]
StreamClosed == [type |-> "StreamClosed"]
StreamNotReadable == [type |-> "StreamNotReadable"]
StreamNotWritable == [type |-> "StreamNotWritable"]
StreamNotConnected == [type |-> "StreamNotConnected"]
AddressNotBound == [type |-> "AddressNotBound"]

\* ---------------------------------------------------------------- characters
LowerCase == <<"a","b","c","d","e","f","g","h","i","j","k","l","m",
               "n","o","p","q","r","s","t","u","v","w","x","y","z">>
UpperCase == <<"A","B","C","D","E","F","G","H","I","J","K","L","M",
               "N","O","P","Q","R","S","T","U","V","W","X","Y","Z">>

\* char::is_whitespace on the characters of the model's alphabet.
is_whitespace(ch) == ch \in {" ", "\t", "\n", "\r"}

\* char upper-casing; only the ASCII letters have an upper case in the alphabet.
to_upper_char(ch) ==
    IF \E i \in 1..26 : LowerCase[i] = ch
    THEN UpperCase[CHOOSE i \in 1..26 : LowerCase[i] = ch]
    ELSE ch

\* str::to_uppercase
to_uppercase(s) == [i \in 1..Len(s) |-> to_upper_char(s[i])]

\* str::split_whitespace: the maximal runs of non-whitespace characters, in order.
RECURSIVE split_from(_, _, _, _)
split_from(s, i, cur, acc) ==
    IF i > Len(s)
    THEN IF cur = <<>> THEN acc ELSE Append(acc, cur)
    ELSE IF is_whitespace(s[i])
         THEN split_from(s, i + 1, <<>>, IF cur = <<>> THEN acc ELSE Append(acc, cur))
         ELSE split_from(s, i + 1, Append(cur, s[i]), acc)

split_whitespace(s) == split_from(s, 1, <<>>, <<>>)

\* <str as Debug>::fmt: the string in double quotes, quote and backslash escaped.
escape_debug(ch) ==
    IF ch = "\"" THEN <<"\\", "\"">>
    ELSE IF ch = "\\" THEN <<"\\", "\\">>
    ELSE <<ch>>

RECURSIVE debug_chars(_)
debug_chars(s) == IF s = <<>> THEN <<>> ELSE escape_debug(Head(s)) \o debug_chars(Tail(s))

debug_str(s) == <<"\"">> \o debug_chars(s) \o <<"\"">>

\* <Vec<String> as Debug>::fmt: ["a", "b"]
RECURSIVE debug_list(_)
debug_list(v) ==
    IF v = <<>> THEN <<>>
    ELSE IF Len(v) = 1 THEN debug_str(v[1])
    ELSE debug_str(v[1]) \o <<", ">> \o debug_list(Tail(v))

debug_vec(v) == <<"[">> \o debug_list(v) \o <<"]">>

\* impl Display for MiniRedisError
to_string(e) ==
    CASE e.type = "StoreLocked" ->
            <<"Could not access the key value store as it is locked.">>
      [] e.type = "InvalidCommand" ->
            <<"Invalid command: ">> \o e.command
               \o <<". Run 'miniredis --help' for more information.">>
      [] e.type = "InvalidArguments" ->
            <<"Invalid arguments: ">> \o debug_vec(e.arguments)
               \o <<". Run 'miniredis --help' for more information.">>
      [] e.type = "StreamClosed" -> <<"The stream is closed.">>
      [] e.type = "StreamNotReadable" -> <<"Could not read from the stream.">>
      [] e.type = "StreamNotWritable" -> <<"Could not write to the stream.">>
      [] e.type = "AddressNotBound" -> <<"Could not bind to the address.">>

\* ------------------------------------------------------------------- tokens
GET == <<"G","E","T">>
SET == <<"S","E","T">>
DEL == <<"D","E","L">>
OK == <<"O","K">>
nil == <<"n","i","l">>

\* -------------------------------------------------------------------- KVStore
\* HashMap<String, String>: a function from the keys present to their values.
EmptyMap == [k \in {} |-> <<>>]

\* HashMap::insert and HashMap::remove
insert(map, key, value) ==
    [k \in DOMAIN map \cup {key} |-> IF k = key THEN value ELSE map[k]]

remove(map, key) == [k \in DOMAIN map \ {key} |-> map[k]]

\* Fault: get that yields the empty string for an absent key (unwrap_or_default).
get_or_default(map, key) ==
    [map |-> map,
     ret |-> Ok(Some(IF key \in DOMAIN map THEN map[key] ELSE <<>>))]

\* Fault: get that takes the value out of the map (remove for get).
get_take(map, key) ==
    [map |-> [k \in DOMAIN map \ {key} |-> map[k]],
     ret |-> Ok(IF key \in DOMAIN map THEN Some(map[key]) ELSE None)]

\* Fault: get that leaves an empty entry behind for an absent key
\* (entry(key).or_default()).
get_inserts_default(map, key) ==
    [map |-> IF key \in DOMAIN map THEN map ELSE insert(map, key, <<>>),
     ret |-> Ok(IF key \in DOMAIN map THEN Some(map[key]) ELSE None)]

\* The store methods with the guard held: the map they leave and what they
\* return.
\* KVStore::get: Ok(store.get(key).cloned())
get(map, key) ==
    [map |-> map,
     ret |-> Ok(IF key \in DOMAIN map THEN Some(map[key]) ELSE None)]

\* Fault: set that appends the value to the one the key holds (push_str).
set_append(map, key, value) ==
    [map |-> insert(map, key, (IF key \in DOMAIN map THEN map[key] ELSE <<>>) \o value),
     ret |-> Ok(Unit)]

\* Fault: set that replaces the whole map by the one entry.
set_single_entry(map, key, value) == [map |-> [k \in {key} |-> value], ret |-> Ok(Unit)]

\* Fault: set with key and value exchanged.
set_swapped(map, key, value) == [map |-> insert(map, value, key), ret |-> Ok(Unit)]

\* Fault: set that keeps the value of a key already present (entry().or_insert).
set_if_absent(map, key, value) ==
    [map |-> IF key \in DOMAIN map THEN map ELSE insert(map, key, value),
     ret |-> Ok(Unit)]

\* KVStore::set: store.insert(key, value); Ok(())
set(map, key, value) == [map |-> insert(map, key, value), ret |-> Ok(Unit)]

\* Fault: del that removes nothing.
del_nothing(map, key) == [map |-> map, ret |-> Ok(Unit)]

\* Fault: del that empties the map (clear for remove).
del_clears(map, key) == [map |-> EmptyMap, ret |-> Ok(Unit)]

\* KVStore::del: store.remove(key); Ok(())
del(map, key) == [map |-> remove(map, key), ret |-> Ok(Unit)]

\* --------------------------------------------------------------------- Server
\* Fault: parse_command that leaves the command name as written.
parse_command_as_written(line) ==
    LET parts == split_whitespace(line)
    IN IF parts = <<>>
       THEN None
       ELSE Some([command |-> Head(parts), args |-> Tail(parts)])

\* Fault: parse_command that takes a line without tokens for a command with an
\* empty name (unwrap_or_default on the first token).
parse_command_blank_command(line) ==
    LET parts == split_whitespace(line)
    IN IF parts = <<>>
       THEN Some([command |-> <<>>, args |-> <<>>])
       ELSE Some([command |-> to_uppercase(Head(parts)), args |-> Tail(parts)])

\* Fault: parse_command that upper-cases the whole line before splitting it.
parse_command_upper_line(line) ==
    LET parts == split_whitespace(to_uppercase(line))
    IN IF parts = <<>>
       THEN None
       ELSE Some([command |-> Head(parts), args |-> Tail(parts)])

\* Server::parse_command
parse_command(line) ==
    LET parts == split_whitespace(line)
    IN IF parts = <<>>
       THEN None
       ELSE Some([command |-> to_uppercase(Head(parts)), args |-> Tail(parts)])

\* Fault: handle_command that only rejects a GET without any argument.
handle_command_lenient(command, args) ==
    IF command = GET
    THEN IF Len(args) < 1 THEN Err(InvalidArguments(args))
         ELSE [tag |-> "Call"]
    ELSE IF command = SET
    THEN IF Len(args) # 2 THEN Err(InvalidArguments(args))
         ELSE [tag |-> "Call"]
    ELSE IF command = DEL
    THEN IF Len(args) # 1 THEN Err(InvalidArguments(args))
         ELSE [tag |-> "Call"]
    ELSE Err(InvalidCommand(command))

\* Fault: handle_command that takes every command starting with GET for GET.
handle_command_prefix(command, args) ==
    IF Len(command) >= 3 /\ SubSeq(command, 1, 3) = <<"G","E","T">>
    THEN IF Len(args) # 1 THEN Err(InvalidArguments(args))
         ELSE [tag |-> "Call"]
    ELSE IF command = <<"S","E","T">>
    THEN IF Len(args) # 2 THEN Err(InvalidArguments(args))
         ELSE [tag |-> "Call"]
    ELSE IF command = <<"D","E","L">>
    THEN IF Len(args) # 1 THEN Err(InvalidArguments(args))
         ELSE [tag |-> "Call"]
    ELSE Err(InvalidCommand(command))

\* Server::handle_command up to its call of the store: the error it returns at
\* once, or the store method it calls.
handle_command(command, args) ==
    IF command = GET
    THEN IF Len(args) # 1 THEN Err(InvalidArguments(args))
         ELSE [tag |-> "Call"]
    ELSE IF command = SET
    THEN IF Len(args) # 2 THEN Err(InvalidArguments(args))
         ELSE [tag |-> "Call"]
    ELSE IF command = DEL
    THEN IF Len(args) # 1 THEN Err(InvalidArguments(args))
         ELSE [tag |-> "Call"]
    ELSE Err(InvalidCommand(command))

\* Server::handle_command from the store method's return value on.
handle_result(command, ret) ==
    IF ret.tag = "Err" THEN ret
    ELSE IF command = GET
         THEN IF ret.value.tag = "Some" THEN Ok(ret.value.value) ELSE Ok(nil)
         ELSE Ok(OK)

\* Server::handle_client: the response text of a handle_command result.
response_of(res) == IF res.tag = "Ok" THEN res.value ELSE to_string(res.error)


\* ------------------------------------------------------------- client lines
\* A line as a client writes it: the tokens separated by sep, between lead and
\* trail; trail ends with the line terminator.
RECURSIVE join(_, _)
join(tokens, sep) ==
    IF tokens = <<>> THEN <<>>
    ELSE IF Len(tokens) = 1 THEN tokens[1]
    ELSE tokens[1] \o sep \o join(Tail(tokens), sep)

make_line(lead, tokens, sep, trail) == lead \o join(tokens, sep) \o trail

Line(tokens) == make_line(<<>>, tokens, <<" ">>, <<"\n">>)

\* The lines the clients of Spec send.
ClientLines ==
    { Line(<<SET, <<"a">>, <<"x">>>>),
      Line(<<<<"s","e","t">>, <<"a">>, <<"y">>>>),
      Line(<<GET, <<"a">>>>),
      Line(<<DEL, <<"a">>>>) }

\* ---------------------------------------------------------------------- state
VARIABLES
    listener,   \* Server::run: "new", "listening", "failed" (bind failed) or
                \* "stopped" (accept failed)
    store,      \* KVStore.store: the HashMap inside the Mutex
    holder,     \* the connection whose handler holds the MutexGuard, 0 if none
    poisoned,   \* the Mutex's poison flag
    pc,         \* each handler's position in handle_client
    inbox,      \* each connection's lines sent by the client and not yet read
    line,       \* handle_client's line buffer
    command,    \* handle_client's parsed command name
    args,       \* handle_client's parsed arguments
    response,   \* handle_client's response
    outbox,     \* each connection's lines written by the handler so far
    result,     \* each handler's return value, None while it runs
    nsent,      \* number of lines the clients have sent
    lastWrite,  \* history: per key, the last set or del applied to it, and by whom
    written,    \* history: per key, the values ever set for it
    lastLock,   \* history: per key, the last set or del the guard was taken for
    pipelined,  \* history: each connection's lines already sent when its
                \* handler started (none where the clients send as they go)
    stdin,      \* Client::run: the lines the user is still to type
    cpc,        \* Client::run: the client's position in its loop,
                \* "unconnected" where no interactive client runs
    input,      \* Client::run: the line read from the terminal
    printed     \* Client::run: the responses printed on the terminal

vars == <<listener, store, holder, poisoned, pc, inbox, line, command, args,
          response, outbox, result, nsent, lastWrite, written, lastLock,
          pipelined, stdin, cpc, input, printed>>

handler == <<line, command, args, response>>

history == <<lastWrite, written, lastLock, pipelined>>

terminal == <<stdin, cpc, input, printed>>

\* No interactive client runs: the connections' lines come from clients that
\* write to their sockets directly.
NoClient ==
    /\ stdin = <<>>
    /\ cpc = "unconnected"
    /\ input = <<>>
    /\ printed = <<>>

\* The history h with the entry for key k set to v.
Record(h, k, v) == [x \in DOMAIN h \cup {k} |-> IF x = k THEN v ELSE h[x]]

\* The history h of guards taken, after connection c took the guard for cmd.
Taken(h, c, cmd, arguments) ==
    IF cmd = <<"G","E","T">> THEN h
    ELSE Record(h, arguments[1], [conn |-> c, command |-> cmd, args |-> arguments])

Init ==
    /\ listener = "new"
    /\ store = EmptyMap
    /\ holder = 0
    /\ poisoned = FALSE
    /\ pc = [c \in Conns |-> "unconnected"]
    /\ inbox = [c \in Conns |-> <<>>]
    /\ line = [c \in Conns |-> <<>>]
    /\ command = [c \in Conns |-> <<>>]
    /\ args = [c \in Conns |-> <<>>]
    /\ response = [c \in Conns |-> <<>>]
    /\ outbox = [c \in Conns |-> <<>>]
    /\ result = [c \in Conns |-> None]
    /\ nsent = 0
    /\ lastWrite = EmptyMap
    /\ written = EmptyMap
    /\ lastLock = EmptyMap
    /\ pipelined = [c \in Conns |-> <<>>]
    /\ NoClient

\* ------------------------------------------------------------------- listener
\* Server::run: TcpListener::bind succeeds or run returns AddressNotBound.
Bind ==
    /\ listener = "new"
    /\ listener' \in {"listening", "failed"}
    /\ UNCHANGED <<store, holder, poisoned, pc, inbox, handler, outbox, result,
                   nsent, history, terminal>>

\* Fault: a run that reports a failed bind and carries on to its accept loop.
Accept_unbound(c) ==
    /\ listener \in {"listening", "failed"}
    /\ pc[c] = "unconnected"
    /\ \A d \in Conns : d < c => pc[d] # "unconnected"
    /\ pc' = [pc EXCEPT ![c] = "read_line"]
    /\ UNCHANGED <<listener, store, holder, poisoned, inbox, handler, outbox,
                   result, nsent, history, terminal>>

\* Fault: a run that handles the connection itself and accepts the next one
\* when that handler has returned.
Accept_inline(c) ==
    /\ listener = "listening"
    /\ pc[c] = "unconnected"
    /\ \A d \in Conns : d < c => pc[d] = "closed"
    /\ pc' = [pc EXCEPT ![c] = "read_line"]
    /\ UNCHANGED <<listener, store, holder, poisoned, inbox, handler, outbox,
                   result, nsent, history, terminal>>

\* Server::run: an incoming connection gets a handler thread sharing the store.
\* Connections are numbered in the order listener.incoming() yields them.
Accept(c) ==
    /\ listener = "listening"
    /\ pc[c] = "unconnected"
    /\ \A d \in Conns : d < c => pc[d] # "unconnected"
    /\ pc' = [pc EXCEPT ![c] = "read_line"]
    /\ UNCHANGED <<listener, store, holder, poisoned, inbox, handler, outbox,
                   result, nsent, history, terminal>>

\* -------------------------------------------------------------------- clients
\* A client writes one more line to its connection.
Send(c, l) ==
    /\ pc[c] \notin {"unconnected", "closed"}
    /\ nsent < MaxSent
    /\ inbox' = [inbox EXCEPT ![c] = Append(@, l)]
    /\ nsent' = nsent + 1
    /\ UNCHANGED <<listener, store, holder, poisoned, pc, handler, outbox,
                   result, history, terminal>>

\* -------------------------------------------------------------- handle_client
\* handle_client returns: its locals are gone, and dropping the stream closes
\* the socket, which discards what the client sent and was not read.
Close(c, res) ==
    /\ pc' = [pc EXCEPT ![c] = "closed"]
    /\ inbox' = [inbox EXCEPT ![c] = <<>>]
    /\ result' = [result EXCEPT ![c] = Some(res)]
    /\ line' = [line EXCEPT ![c] = <<>>]
    /\ command' = [command EXCEPT ![c] = <<>>]
    /\ args' = [args EXCEPT ![c] = <<>>]
    /\ response' = [response EXCEPT ![c] = <<>>]

\* Fault: a handler that takes the line received last instead of the oldest.
ReadLine_newest(c) ==
    /\ pc[c] = "read_line"
    /\ inbox[c] # <<>>
    /\ inbox' = [inbox EXCEPT ![c] = SubSeq(@, 1, Len(@) - 1)]
    /\ LET l == inbox[c][Len(inbox[c])]
           parsed == parse_command(l)
       IN IF parsed = None
          THEN UNCHANGED <<pc, handler>>
          ELSE LET r == handle_command(parsed.value.command, parsed.value.args)
               IN /\ line' = [line EXCEPT ![c] = l]
                  /\ command' = [command EXCEPT ![c] = parsed.value.command]
                  /\ args' = [args EXCEPT ![c] = parsed.value.args]
                  /\ IF r.tag = "Err"
                     THEN /\ response' = [response EXCEPT ![c] = response_of(r)]
                          /\ pc' = [pc EXCEPT ![c] = "write_all"]
                     ELSE /\ pc' = [pc EXCEPT ![c] = "get_store"]
                          /\ UNCHANGED response
    /\ UNCHANGED <<listener, store, holder, poisoned, outbox, result, nsent, history,
                   terminal>>

\* Fault: a handler that takes a last line without its newline for the end of
\* the stream.
ReadLine_needs_newline(c) ==
    /\ pc[c] = "read_line"
    /\ inbox[c] # <<>>
    /\ LET l == Head(inbox[c])
           parsed == parse_command(l)
       IN IF l[Len(l)] # "\n"
          THEN /\ Close(c, Ok(Unit))
          ELSE /\ inbox' = [inbox EXCEPT ![c] = Tail(@)]
               /\ UNCHANGED result
               /\ IF parsed = None
                  THEN UNCHANGED <<pc, handler>>
                  ELSE LET r == handle_command(parsed.value.command, parsed.value.args)
                       IN /\ line' = [line EXCEPT ![c] = l]
                          /\ command' = [command EXCEPT ![c] = parsed.value.command]
                          /\ args' = [args EXCEPT ![c] = parsed.value.args]
                          /\ IF r.tag = "Err"
                             THEN /\ response' = [response EXCEPT ![c] = response_of(r)]
                                  /\ pc' = [pc EXCEPT ![c] = "write_all"]
                             ELSE /\ pc' = [pc EXCEPT ![c] = "get_store"]
                                  /\ UNCHANGED response
    /\ UNCHANGED <<listener, store, holder, poisoned, outbox, nsent, history,
                   terminal>>

\* Fault: a handle_command that gets the store before it looks at the command,
\* and fails with StoreLocked whatever the command is.
ReadLine_store_first(c) ==
    /\ pc[c] = "read_line"
    /\ inbox[c] # <<>>
    /\ inbox' = [inbox EXCEPT ![c] = Tail(@)]
    /\ LET l == Head(inbox[c])
           parsed == parse_command(l)
       IN IF parsed = None
          THEN UNCHANGED <<pc, handler>>
          ELSE LET r == IF poisoned THEN Err(StoreLocked)
                        ELSE handle_command(parsed.value.command, parsed.value.args)
               IN /\ line' = [line EXCEPT ![c] = l]
                  /\ command' = [command EXCEPT ![c] = parsed.value.command]
                  /\ args' = [args EXCEPT ![c] = parsed.value.args]
                  /\ IF r.tag = "Err"
                     THEN /\ response' = [response EXCEPT ![c] = response_of(r)]
                          /\ pc' = [pc EXCEPT ![c] = "write_all"]
                     ELSE /\ pc' = [pc EXCEPT ![c] = "get_store"]
                          /\ UNCHANGED response
    /\ UNCHANGED <<listener, store, holder, poisoned, outbox, result, nsent, history,
                   terminal>>

\* read_line returns a line; it is parsed and handle_command runs up to its
\* store call.  A line without a command is skipped.
ReadLine(c) ==
    /\ pc[c] = "read_line"
    /\ inbox[c] # <<>>
    /\ inbox' = [inbox EXCEPT ![c] = Tail(@)]
    /\ LET l == Head(inbox[c])
           parsed == parse_command(l)
       IN IF parsed = None
          THEN UNCHANGED <<pc, handler>>
          ELSE LET r == handle_command(parsed.value.command, parsed.value.args)
               IN /\ line' = [line EXCEPT ![c] = l]
                  /\ command' = [command EXCEPT ![c] = parsed.value.command]
                  /\ args' = [args EXCEPT ![c] = parsed.value.args]
                  /\ IF r.tag = "Err"
                     THEN /\ response' = [response EXCEPT ![c] = response_of(r)]
                          /\ pc' = [pc EXCEPT ![c] = "write_all"]
                     ELSE /\ pc' = [pc EXCEPT ![c] = "get_store"]
                          /\ UNCHANGED response
    /\ UNCHANGED <<listener, store, holder, poisoned, outbox, result, nsent, history,
                   terminal>>

\* Fault: a handler that owns the map and takes it along when its client leaves.
ReadEof_drops_store(c) ==
    /\ pc[c] = "read_line"
    /\ inbox[c] = <<>>
    /\ Close(c, Ok(Unit))
    /\ store' = EmptyMap
    /\ UNCHANGED <<listener, holder, poisoned, outbox, nsent, history,
                   terminal>>

\* Fault: a handler that takes the end of the stream for an error.
ReadEof_as_error(c) ==
    /\ pc[c] = "read_line"
    /\ inbox[c] = <<>>
    /\ Close(c, Err(StreamClosed))
    /\ UNCHANGED <<listener, store, holder, poisoned, outbox, nsent, history,
                   terminal>>

\* read_line returns 0: the client has closed the stream; the loop breaks.
ReadEof(c) ==
    /\ pc[c] = "read_line"
    /\ inbox[c] = <<>>
    /\ Close(c, Ok(Unit))
    /\ UNCHANGED <<listener, store, holder, poisoned, outbox, nsent, history,
                   terminal>>

\* Fault: a handler run by the accept loop itself, whose error ends run.
ReadFail_ends_run(c) ==
    /\ pc[c] = "read_line"
    /\ Close(c, Err(StreamNotReadable))
    /\ listener' = "stopped"
    /\ UNCHANGED <<store, holder, poisoned, outbox, nsent, history, terminal>>

\* read_line fails: handle_client returns StreamNotReadable.
ReadFail(c) ==
    /\ pc[c] = "read_line"
    /\ Close(c, Err(StreamNotReadable))
    /\ UNCHANGED <<listener, store, holder, poisoned, outbox, nsent, history,
                   terminal>>

\* Fault: a get_store that hands out the map without waiting for the guard.
GetStore_no_wait(c) ==
    /\ pc[c] = "get_store"
    /\ holder' = c
    /\ pc' = [pc EXCEPT ![c] = "locked"]
    /\ lastLock' = Taken(lastLock, c, command[c], args[c])
    /\ UNCHANGED <<listener, store, poisoned, inbox, handler, outbox, result,
                   nsent, lastWrite, written, pipelined, terminal>>

\* Fault: a handler that returns the error of the store instead of writing it
\* to the client.
GetStore_fatal(c) ==
    /\ pc[c] = "get_store"
    /\ IF poisoned
       THEN /\ Close(c, Err(StoreLocked))
            /\ UNCHANGED <<holder, lastLock>>
       ELSE /\ holder = 0
            /\ holder' = c
            /\ pc' = [pc EXCEPT ![c] = "locked"]
            /\ lastLock' = Taken(lastLock, c, command[c], args[c])
            /\ UNCHANGED <<inbox, handler, result>>
    /\ UNCHANGED <<listener, store, poisoned, outbox, nsent, lastWrite, written,
                   pipelined, terminal>>

\* Fault: a get_store that gives up when another thread holds the guard
\* (try_lock in place of lock).
GetStore_try_lock(c) ==
    /\ pc[c] = "get_store"
    /\ IF poisoned \/ holder # 0
       THEN /\ response' = [response EXCEPT ![c] = response_of(Err(StoreLocked))]
            /\ pc' = [pc EXCEPT ![c] = "write_all"]
            /\ UNCHANGED <<holder, lastLock>>
       ELSE /\ holder' = c
            /\ pc' = [pc EXCEPT ![c] = "locked"]
            /\ lastLock' = Taken(lastLock, c, command[c], args[c])
            /\ UNCHANGED response
    /\ UNCHANGED <<listener, store, poisoned, inbox, line, command, args, outbox,
                   result, nsent, lastWrite, written, pipelined, terminal>>

\* KVStore::get_store: Mutex::lock blocks while another thread holds the guard
\* and fails if the mutex is poisoned.
GetStore(c) ==
    /\ pc[c] = "get_store"
    /\ IF poisoned
       THEN /\ response' = [response EXCEPT ![c] = response_of(Err(StoreLocked))]
            /\ pc' = [pc EXCEPT ![c] = "write_all"]
            /\ UNCHANGED <<holder, lastLock>>
       ELSE /\ holder = 0
            /\ holder' = c
            /\ pc' = [pc EXCEPT ![c] = "locked"]
            /\ lastLock' = Taken(lastLock, c, command[c], args[c])
            /\ UNCHANGED response
    /\ UNCHANGED <<listener, store, poisoned, inbox, line, command, args, outbox,
                   result, nsent, lastWrite, written, pipelined, terminal>>

\* The store method handle_command calls for this command, applied to map.
call(cmd, arguments, map) ==
    IF cmd = GET THEN get(map, arguments[1])
    ELSE IF cmd = SET THEN set(map, arguments[1], arguments[2])
    ELSE del(map, arguments[1])

\* One iteration of handle_client's loop on line l with no other handler
\* running, from map: the response written (None for a skipped line) and the
\* map left.
iteration(l, map) ==
    LET parsed == parse_command(l)
    IN IF parsed = None
       THEN [response |-> None, map |-> map]
       ELSE LET cmd == parsed.value.command
                a == parsed.value.args
                r == handle_command(cmd, a)
            IN IF r.tag = "Err"
               THEN [response |-> Some(response_of(r)), map |-> map]
               ELSE LET k == call(cmd, a, map)
                    IN [response |-> Some(response_of(handle_result(cmd, k.ret))),
                        map |-> k.map]

\* Fault: a map operation that does not give the guard back (mem::forget).
MapOp_keeps_guard(c) ==
    /\ pc[c] = "locked"
    /\ LET r == call(command[c], args[c], store)
           key == args[c][1]
       IN /\ store' = r.map
          /\ response' = [response EXCEPT
                            ![c] = response_of(handle_result(command[c], r.ret))]
          /\ lastWrite' =
                IF command[c] = GET THEN lastWrite
                ELSE Record(lastWrite, key, [conn |-> c, command |-> command[c],
                                             args |-> args[c]])
          /\ written' =
                IF command[c] = SET
                THEN Record(written, key,
                            (IF key \in DOMAIN written THEN written[key] ELSE {})
                               \cup {args[c][2]})
                ELSE written
    /\ holder' = holder
    /\ pc' = [pc EXCEPT ![c] = "write_all"]
    /\ UNCHANGED <<listener, poisoned, inbox, line, command, args, outbox, result,
                   nsent, lastLock, pipelined, terminal>>

\* Fault: a get that panics under the guard when the key is absent (unwrap on
\* the Option), which poisons the mutex and ends the thread.
MapOp_get_unwraps(c) ==
    /\ pc[c] = "locked"
    /\ IF command[c] = GET /\ args[c][1] \notin DOMAIN store
       THEN /\ poisoned' = TRUE
            /\ Close(c, [tag |-> "Panicked"])
            /\ UNCHANGED <<store, lastWrite, written>>
       ELSE /\ LET r == call(command[c], args[c], store)
                   key == args[c][1]
               IN /\ store' = r.map
                  /\ response' = [response EXCEPT
                                    ![c] = response_of(handle_result(command[c], r.ret))]
                  /\ lastWrite' =
                        IF command[c] = GET THEN lastWrite
                        ELSE Record(lastWrite, key,
                                    [conn |-> c, command |-> command[c],
                                     args |-> args[c]])
                  /\ written' =
                        IF command[c] = SET
                        THEN Record(written, key,
                                    (IF key \in DOMAIN written THEN written[key] ELSE {})
                                       \cup {args[c][2]})
                        ELSE written
            /\ pc' = [pc EXCEPT ![c] = "write_all"]
            /\ UNCHANGED <<poisoned, inbox, line, command, args, result>>
    /\ holder' = 0
    /\ UNCHANGED <<listener, outbox, nsent, lastLock, pipelined, terminal>>

\* KVStore::get / set / del with the guard held: the map operation, then the
\* guard is dropped and handle_command returns.
MapOp(c) ==
    /\ pc[c] = "locked"
    /\ LET r == call(command[c], args[c], store)
           key == args[c][1]
       IN /\ store' = r.map
          /\ response' = [response EXCEPT
                            ![c] = response_of(handle_result(command[c], r.ret))]
          /\ lastWrite' =
                IF command[c] = GET THEN lastWrite
                ELSE Record(lastWrite, key, [conn |-> c, command |-> command[c],
                                             args |-> args[c]])
          /\ written' =
                IF command[c] = SET
                THEN Record(written, key,
                            (IF key \in DOMAIN written THEN written[key] ELSE {})
                               \cup {args[c][2]})
                ELSE written
    /\ holder' = 0
    /\ pc' = [pc EXCEPT ![c] = "write_all"]
    /\ UNCHANGED <<listener, poisoned, inbox, line, command, args, outbox, result,
                   nsent, lastLock, pipelined, terminal>>

\* Fault: a handler that writes its response to every open connection.
WriteAll_broadcast(c) ==
    /\ pc[c] = "write_all"
    /\ outbox' = [d \in Conns |->
                     IF pc[d] \in {"unconnected", "closed"} THEN outbox[d]
                     ELSE Append(outbox[d], response[c] \o <<"\n">>)]
    /\ pc' = [pc EXCEPT ![c] = "read_line"]
    /\ line' = [line EXCEPT ![c] = <<>>]
    /\ command' = [command EXCEPT ![c] = <<>>]
    /\ args' = [args EXCEPT ![c] = <<>>]
    /\ response' = [response EXCEPT ![c] = <<>>]
    /\ UNCHANGED <<listener, store, holder, poisoned, inbox, result, nsent, history,
                   terminal>>

\* Fault: a handler that hangs up after it has written an error message.
WriteAll_error_ends(c) ==
    /\ pc[c] = "write_all"
    /\ outbox' = [outbox EXCEPT ![c] = Append(@, response[c] \o <<"\n">>)]
    /\ IF response[c][1] \in {"Invalid command: ", "Invalid arguments: ",
                              "Could not access the key value store as it is locked."}
       THEN Close(c, Ok(Unit))
       ELSE /\ pc' = [pc EXCEPT ![c] = "read_line"]
            /\ line' = [line EXCEPT ![c] = <<>>]
            /\ command' = [command EXCEPT ![c] = <<>>]
            /\ args' = [args EXCEPT ![c] = <<>>]
            /\ response' = [response EXCEPT ![c] = <<>>]
            /\ UNCHANGED <<inbox, result>>
    /\ UNCHANGED <<listener, store, holder, poisoned, nsent, history, terminal>>

\* Fault: a handler that writes the response and leaves out the newline.
WriteAll_no_newline(c) ==
    /\ pc[c] = "write_all"
    /\ outbox' = [outbox EXCEPT ![c] = Append(@, response[c])]
    /\ pc' = [pc EXCEPT ![c] = "read_line"]
    /\ line' = [line EXCEPT ![c] = <<>>]
    /\ command' = [command EXCEPT ![c] = <<>>]
    /\ args' = [args EXCEPT ![c] = <<>>]
    /\ response' = [response EXCEPT ![c] = <<>>]
    /\ UNCHANGED <<listener, store, holder, poisoned, inbox, result, nsent, history,
                   terminal>>

\* Both write_all calls succeed: the response and the newline are on the wire,
\* and the loop starts over.
WriteAll(c) ==
    /\ pc[c] = "write_all"
    /\ outbox' = [outbox EXCEPT ![c] = Append(@, response[c] \o <<"\n">>)]
    /\ pc' = [pc EXCEPT ![c] = "read_line"]
    /\ line' = [line EXCEPT ![c] = <<>>]
    /\ command' = [command EXCEPT ![c] = <<>>]
    /\ args' = [args EXCEPT ![c] = <<>>]
    /\ response' = [response EXCEPT ![c] = <<>>]
    /\ UNCHANGED <<listener, store, holder, poisoned, inbox, result, nsent, history,
                   terminal>>

\* Fault: a handler that notes the failed write and goes on with its loop.
WriteFail_carries_on(c) ==
    /\ pc[c] = "write_all"
    /\ pc' = [pc EXCEPT ![c] = "read_line"]
    /\ result' = [result EXCEPT ![c] = Some(Err(StreamNotWritable))]
    /\ line' = [line EXCEPT ![c] = <<>>]
    /\ command' = [command EXCEPT ![c] = <<>>]
    /\ args' = [args EXCEPT ![c] = <<>>]
    /\ response' = [response EXCEPT ![c] = <<>>]
    /\ UNCHANGED <<listener, store, holder, poisoned, inbox, outbox, nsent, history,
                   terminal>>

\* Fault: a handler that undoes its SET when the response cannot be written.
WriteFail_rolls_back(c) ==
    /\ pc[c] = "write_all"
    /\ Close(c, Err(StreamNotWritable))
    /\ outbox' = outbox
    /\ store' = IF command[c] = SET /\ response[c] = OK
                THEN remove(store, args[c][1])
                ELSE store
    /\ UNCHANGED <<listener, holder, poisoned, nsent, history, terminal>>

\* One of the two write_all calls fails: handle_client returns
\* StreamNotWritable.  The client has got nothing of the response, or the
\* response without its newline.
WriteFail(c) ==
    /\ pc[c] = "write_all"
    /\ Close(c, Err(StreamNotWritable))
    /\ \/ outbox' = outbox
       \/ outbox' = [outbox EXCEPT ![c] = Append(@, response[c])]
    /\ UNCHANGED <<listener, store, holder, poisoned, nsent, history, terminal>>

Next ==
    \/ Bind
    \/ \E c \in Conns : Accept(c)
    \/ \E c \in Conns, l \in ClientLines : Send(c, l)
    \/ \E c \in Conns : ReadLine(c)
    \/ \E c \in Conns : ReadEof(c)
    \/ \E c \in Conns : ReadFail(c)
    \/ \E c \in Conns : GetStore(c)
    \/ \E c \in Conns : MapOp(c)
    \/ \E c \in Conns : WriteAll(c)
    \/ \E c \in Conns : WriteFail(c)

Spec == Init /\ [][Next]_vars

\* -------------------------------------------------------------- SpecListen
\* Spec, with an accept that fails.

\* Server::run: listener.incoming() yields an error for the next connection;
\* the ? makes run return StreamNotConnected and the accept loop is over.
\* (bin/server.rs then prints the error and exits with status 1.)
AcceptFail(c) ==
    /\ listener = "listening"
    /\ pc[c] = "unconnected"
    /\ \A d \in Conns : d < c => pc[d] # "unconnected"
    /\ listener' = "stopped"
    /\ UNCHANGED <<store, holder, poisoned, pc, inbox, handler, outbox, result,
                   nsent, history, terminal>>

\* What Server::run has returned, None while it runs.
run_result ==
    CASE listener = "failed" -> Some(Err(AddressNotBound))
      [] listener = "stopped" -> Some(Err(StreamNotConnected))
      [] OTHER -> None

\* bin/server.rs main: the status the process exits with when run has
\* returned an error, None otherwise.
exit_status ==
    IF run_result # None /\ run_result.value.tag = "Err" THEN Some(1) ELSE None

NextListen ==
    \/ Next
    \/ \E c \in Conns : AcceptFail(c)

SpecListen == Init /\ [][NextListen]_vars

\* ---------------------------------------------------------------- SpecCmd
\* One handler of a running server is handed one line, out of every spelling of
\* a command, every argument list of up to MaxArgs tokens and two layouts of
\* whitespace, against every store of StoreStates.

CmdTokens ==
    { GET, <<"g","e","t">>, <<"G","e","T">>,
      SET, <<"s","e","t">>, <<"S","e","t">>,
      DEL, <<"d","e","l">>, <<"d","E","l">>,
      <<"F","O","O">>, <<"f","o","o">>, <<"G","E","T","S">> }

ArgTokens == { <<"a">>, <<"b">>, <<"x">> }

RECURSIVE Lists(_, _)
Lists(S, n) ==
    IF n = 0 THEN { <<>> }
    ELSE LET shorter == Lists(S, n - 1)
         IN shorter \cup { Append(l, t) : l \in { m \in shorter : Len(m) = n - 1 }, t \in S }

ArgLists == Lists(ArgTokens, MaxArgs)

Layouts ==
    { [lead |-> <<>>, sep |-> <<" ">>, trail |-> <<"\n">>],
      [lead |-> <<" ", "\t">>, sep |-> <<"\t", " ">>, trail |-> <<" ", "\r", "\n">>] }

\* Every line with a command, with the tokens it was written from.
LineTable ==
    { [cmd |-> t, args |-> a, layout |-> w,
       line |-> make_line(w.lead, <<t>> \o a, w.sep, w.trail)] :
         t \in CmdTokens, a \in ArgLists, w \in Layouts }

BlankLines == { <<"\n">>, <<" ", "\t", "\r", "\n">> }

CmdLines == { e.line : e \in LineTable } \cup BlankLines

StoreKeys == { <<"a">>, <<"b">> }
StoreValues == { <<"x">>, nil }
StoreStates == UNION { [K -> StoreValues] : K \in SUBSET StoreKeys }

\* The store was filled by connections that have closed since (connection 0).
InitCmd ==
    /\ listener = "listening"
    /\ store \in StoreStates
    /\ holder = 0
    /\ poisoned = FALSE
    /\ pc = [c \in Conns |-> IF c = 1 THEN "read_line" ELSE "unconnected"]
    /\ inbox \in { [c \in Conns |-> IF c = 1 THEN <<l>> ELSE <<>>] : l \in CmdLines }
    /\ line = [c \in Conns |-> <<>>]
    /\ command = [c \in Conns |-> <<>>]
    /\ args = [c \in Conns |-> <<>>]
    /\ response = [c \in Conns |-> <<>>]
    /\ outbox = [c \in Conns |-> <<>>]
    /\ result = [c \in Conns |-> None]
    /\ nsent = 1
    /\ lastWrite = [k \in DOMAIN store |->
                      [conn |-> 0, command |-> SET, args |-> <<k, store[k]>>]]
    /\ written = [k \in DOMAIN store |-> {store[k]}]
    /\ lastLock = lastWrite
    /\ pipelined = inbox
    /\ NoClient

NextCmd ==
    \/ \E c \in Conns : ReadLine(c)
    \/ \E c \in Conns : ReadEof(c)
    \/ \E c \in Conns : GetStore(c)
    \/ \E c \in Conns : MapOp(c)
    \/ \E c \in Conns : WriteAll(c)

SpecCmd == InitCmd /\ [][NextCmd]_vars

\* ---------------------------------------------------------------- SpecPipe
\* Every client has written all its lines before its handler reads the first
\* one, and has shut down its sending side; the handlers work them off
\* concurrently on a fresh store.

PipeLines ==
    { <<"\n">>,
      <<" ", "\t", "\r", "\n">>,
      Line(<<SET, <<"a">>, <<"x">>>>),
      Line(<<<<"g","e","t">>, <<"a">>>>),
      Line(<<DEL, <<"a">>>>),
      Line(<<<<"F","O","O">>>>) }

RECURSIVE Total(_)
Total(f) == IF f = <<>> THEN 0 ELSE Len(Head(f)) + Total(Tail(f))

\* The ways for the first n connections to pipeline at most MaxPipe lines in
\* total, connection c taking its lines from lines[c].
RECURSIVE Pipelines(_, _)
Pipelines(n, lines) ==
    IF n = 0 THEN { <<>> }
    ELSE UNION { { Append(f, p) : p \in Lists(lines[n], MaxPipe - Total(f)) } :
                   f \in Pipelines(n - 1, lines) }

\* A fresh server whose handlers start on connections that have their input
\* waiting, connection c's taken from lines[c].
Started(lines) ==
    /\ listener = "listening"
    /\ store = EmptyMap
    /\ holder = 0
    /\ poisoned = FALSE
    /\ pc = [c \in Conns |-> "read_line"]
    /\ pipelined \in Pipelines(NumConns, lines)
    /\ inbox = pipelined
    /\ line = [c \in Conns |-> <<>>]
    /\ command = [c \in Conns |-> <<>>]
    /\ args = [c \in Conns |-> <<>>]
    /\ response = [c \in Conns |-> <<>>]
    /\ outbox = [c \in Conns |-> <<>>]
    /\ result = [c \in Conns |-> None]
    /\ nsent = Total(pipelined)
    /\ lastWrite = EmptyMap
    /\ written = EmptyMap
    /\ lastLock = EmptyMap
    /\ NoClient

InitPipe == Started([c \in Conns |-> PipeLines])

NextPipe ==
    \/ \E c \in Conns : ReadLine(c)
    \/ \E c \in Conns : ReadEof(c)
    \/ \E c \in Conns : GetStore(c)
    \/ \E c \in Conns : MapOp(c)
    \/ \E c \in Conns : WriteAll(c)

SpecPipe == InitPipe /\ [][NextPipe]_vars

\* ---------------------------------------------------------------- SpecKeys
\* As SpecPipe, with every client working on a key of its own: it sets it to
\* one of two values and reads it back.

Key(c) == << LowerCase[c] >>

OwnValues(c) == { << UpperCase[c] >>, <<"x">> }

OwnLines(c) ==
    { Line(<<SET, Key(c), v>>) : v \in OwnValues(c) } \cup { Line(<<GET, Key(c)>>) }

InitKeys == Started([c \in Conns |-> OwnLines(c)])

SpecKeys == InitKeys /\ [][NextPipe]_vars

\* -------------------------------------------------------------- SpecPoison
\* As SpecPipe, with a handler thread that may panic while it holds the guard,
\* which is what poisons a Mutex.  Nothing in get, set or del is written to
\* panic; the map operations of the standard library can (capacity overflow).

PoisonLines ==
    { Line(<<SET, <<"a">>, <<"x">>>>),
      Line(<<<<"g","e","t">>, <<"a">>>>),
      Line(<<DEL, <<"a">>>>) }

Panicked == [tag |-> "Panicked"]

\* The thread unwinds: the guard is dropped with the poison flag set, and the
\* stream is dropped with the thread's stack.
Panic(c) ==
    /\ pc[c] = "locked"
    /\ holder = c
    /\ poisoned' = TRUE
    /\ holder' = 0
    /\ Close(c, Panicked)
    /\ UNCHANGED <<listener, store, outbox, nsent, history, terminal>>

InitPoison == Started([c \in Conns |-> PoisonLines])

NextPoison ==
    \/ \E c \in Conns : ReadLine(c)
    \/ \E c \in Conns : ReadEof(c)
    \/ \E c \in Conns : GetStore(c)
    \/ \E c \in Conns : MapOp(c)
    \/ \E c \in Conns : WriteAll(c)
    \/ \E c \in Conns : Panic(c)

SpecPoison == InitPoison /\ [][NextPoison]_vars

\* ---------------------------------------------------------------- SpecLive
\* The handlers of SpecPoison's connections, none of them panicking, under a
\* fair scheduler: a handler thread that can take its next step, and stays
\* able to, takes it.

\* The next step of connection c's handler thread.
Handler(c) == ReadLine(c) \/ ReadEof(c) \/ GetStore(c) \/ MapOp(c) \/ WriteAll(c)

Fairness == \A c \in Conns : WF_vars(Handler(c))

SpecLive == InitPoison /\ [][NextPipe]_vars /\ Fairness

\* --------------------------------------------------------------- SpecServe
\* As SpecPoison, with lines that get an error for a response, and with reads
\* and writes that fail.

ServeLines ==
    { Line(<<SET, <<"a">>, <<"x">>>>),
      Line(<<<<"g","e","t">>, <<"a">>>>),
      Line(<<GET>>),
      Line(<<<<"F","O","O">>>>) }

InitServe == Started([c \in Conns |-> ServeLines])

NextServe ==
    \/ \E c \in Conns : ReadLine(c)
    \/ \E c \in Conns : ReadEof(c)
    \/ \E c \in Conns : ReadFail(c)
    \/ \E c \in Conns : GetStore(c)
    \/ \E c \in Conns : MapOp(c)
    \/ \E c \in Conns : WriteAll(c)
    \/ \E c \in Conns : WriteFail(c)
    \/ \E c \in Conns : Panic(c)

SpecServe == InitServe /\ [][NextServe]_vars

\* -------------------------------------------------------------- SpecClient
\* The interactive client (Client::run) at a terminal, connected to a fresh
\* server.  No read or write fails here, so the handler of the client's
\* connection returns only after the client has: read_response finds a line
\* or waits for one.

\* The connection TcpStream::connect has opened.
ClientConn == 1

quit == <<"q","u","i","t">>

\* What the user may type: a line ends with the newline of the Enter key,
\* unless the terminal's input ends right after it.
TypedLines ==
    { quit \o <<"\n">>,
      <<"\n">>,
      Line(<<SET, <<"a">>, <<"x">>>>),
      Line(<<<<"g","e","t">>, <<"a">>>>) }

UnfinishedLines == { quit }

\* The terminal's input: up to MaxInput lines, only the last one possibly
\* without its newline.
UserInputs ==
    LET typed == Lists(TypedLines, MaxInput)
    IN typed \cup { Append(t, u) : t \in { l \in typed : Len(l) < MaxInput },
                                   u \in UnfinishedLines }

\* BufRead::read_line on the bytes of a stream that end with a newline: the
\* lines in them, each with its newline.
RECURSIVE lines_from(_, _, _)
lines_from(bytes, cur, acc) ==
    IF bytes = <<>> THEN acc
    ELSE IF Head(bytes) = "\n"
         THEN lines_from(Tail(bytes), <<>>, Append(acc, Append(cur, "\n")))
         ELSE lines_from(Tail(bytes), Append(cur, Head(bytes)), acc)

read_lines(bytes) == lines_from(bytes, <<>>, <<>>)

\* Client::run, top of the loop: prompt, read_input, and the two checks of the
\* line read.  read_input returns the line as read_line leaves it, with its
\* newline; at the end of the terminal's input it returns the empty string and
\* the loop starts over.
ReadInput ==
    /\ cpc = "read_input"
    /\ LET read == IF stdin = <<>> THEN <<>> ELSE Head(stdin)
       IN /\ stdin' = IF stdin = <<>> THEN stdin ELSE Tail(stdin)
          /\ input' = read
          /\ cpc' = IF read = <<>> THEN "read_input"
                    ELSE IF read = quit THEN "done"
                    ELSE "send_input"
    /\ UNCHANGED <<listener, store, holder, poisoned, pc, inbox, handler, outbox,
                   result, nsent, history, printed>>

\* Client::send_input: the line, then a newline.
SendInput ==
    /\ cpc = "send_input"
    /\ inbox' = [inbox EXCEPT ![ClientConn] = @ \o read_lines(input \o <<"\n">>)]
    /\ cpc' = "read_response"
    /\ UNCHANGED <<listener, store, holder, poisoned, pc, handler, outbox, result,
                   nsent, history, stdin, input, printed>>

\* Client::read_response and println!: read_line waits for the next line from
\* the server; the line is printed as it came, newline included.
ReadResponse ==
    /\ cpc = "read_response"
    /\ Len(outbox[ClientConn]) > Len(printed)
    /\ printed' = Append(printed, outbox[ClientConn][Len(printed) + 1] \o <<"\n">>)
    /\ cpc' = "read_input"
    /\ UNCHANGED <<listener, store, holder, poisoned, pc, inbox, handler, outbox,
                   result, nsent, history, stdin, input>>

\* Client::run has returned and its stream is dropped: the handler reads the
\* end of the stream.
Hangup == cpc = "done" /\ ReadEof(ClientConn)

InitClient ==
    /\ listener = "listening"
    /\ store = EmptyMap
    /\ holder = 0
    /\ poisoned = FALSE
    /\ pc = [c \in Conns |-> IF c = ClientConn THEN "read_line" ELSE "unconnected"]
    /\ inbox = [c \in Conns |-> <<>>]
    /\ line = [c \in Conns |-> <<>>]
    /\ command = [c \in Conns |-> <<>>]
    /\ args = [c \in Conns |-> <<>>]
    /\ response = [c \in Conns |-> <<>>]
    /\ outbox = [c \in Conns |-> <<>>]
    /\ result = [c \in Conns |-> None]
    /\ nsent = 0
    /\ lastWrite = EmptyMap
    /\ written = EmptyMap
    /\ lastLock = EmptyMap
    /\ pipelined = [c \in Conns |-> <<>>]
    /\ stdin \in UserInputs
    /\ cpc = "read_input"
    /\ input = <<>>
    /\ printed = <<>>

NextClient ==
    \/ ReadInput
    \/ SendInput
    \/ ReadResponse
    \/ Hangup
    \/ \E c \in Conns : ReadLine(c)
    \/ \E c \in Conns : GetStore(c)
    \/ \E c \in Conns : MapOp(c)
    \/ \E c \in Conns : WriteAll(c)

SpecClient == InitClient /\ [][NextClient]_vars

\* --------------------------------------------------------------- SpecParse
\* As SpecCmd on an empty store, with lines whose arguments have capital
\* letters too.

ParseCmds ==
    { <<"s","E","t">>, <<"g","e","t">>, <<"D","E","L">>, <<"f","o","o">> }

ParseArgs == { <<"A","b">>, <<"x">> }

ParseTable ==
    { [cmd |-> t, args |-> a, layout |-> w,
       line |-> make_line(w.lead, <<t>> \o a, w.sep, w.trail)] :
         t \in ParseCmds, a \in Lists(ParseArgs, MaxArgs), w \in Layouts }

ParseLines == { e.line : e \in ParseTable } \cup BlankLines

InitParse ==
    /\ listener = "listening"
    /\ store = EmptyMap
    /\ holder = 0
    /\ poisoned = FALSE
    /\ pc = [c \in Conns |-> IF c = 1 THEN "read_line" ELSE "unconnected"]
    /\ inbox \in { [c \in Conns |-> IF c = 1 THEN <<l>> ELSE <<>>] : l \in ParseLines }
    /\ line = [c \in Conns |-> <<>>]
    /\ command = [c \in Conns |-> <<>>]
    /\ args = [c \in Conns |-> <<>>]
    /\ response = [c \in Conns |-> <<>>]
    /\ outbox = [c \in Conns |-> <<>>]
    /\ result = [c \in Conns |-> None]
    /\ nsent = 1
    /\ lastWrite = EmptyMap
    /\ written = EmptyMap
    /\ lastLock = EmptyMap
    /\ pipelined = inbox
    /\ NoClient

SpecParse == InitParse /\ [][NextCmd]_vars

\* ---------------------------------------------------------------- SpecTail
\* As SpecPipe, with clients that shut down their sending side in the middle
\* of a line: the last thing a connection has received may lack its newline.

TailLines ==
    { Line(<<SET, <<"a">>, <<"x">>>>),
      Line(<<<<"g","e","t">>, <<"a">>>>) }

\* read_line at the end of the stream returns what is left, without a newline.
CutLines ==
    { <<"S","E","T"," ","a"," ","x">>,
      <<"g","e","t"," ","a">>,
      <<"F","O","O">>,
      <<" ", "\t">> }

InitTail ==
    /\ Started([c \in Conns |-> TailLines \cup CutLines])
    /\ \A c \in Conns :
          \A i \in 1..(Len(pipelined[c]) - 1) : pipelined[c][i] \in TailLines

SpecTail == InitTail /\ [][NextPipe]_vars

\* ===================================================================== claims
\* Connection c's store call takes effect in this step.
Applies(c, cmd) == pc[c] = "locked" /\ pc'[c] = "write_all" /\ command[c] = cmd

\* The response a handler holds is the line it writes, unless the write fails.
Delivers(c) ==
    pc[c] = "write_all" =>
        \/ pc'[c] = "write_all" /\ response'[c] = response[c] /\ outbox'[c] = outbox[c]
        \/ pc'[c] = "read_line" /\ outbox'[c] = Append(outbox[c], response[c] \o <<"\n">>)
        \/ pc'[c] = "closed" /\ outbox'[c] \in {outbox[c], Append(outbox[c], response[c])}

\* The last write applied to key k is connection d's SET.
LastIsSetBy(k, d) ==
    /\ k \in DOMAIN lastWrite
    /\ lastWrite[k].conn = d
    /\ lastWrite[k].command = SET

Ka == <<"a">>
Vx == <<"x">>
Vy == <<"y">>

\* C1: at most one handler is inside a map operation at a time: a handler that
\* is between get_store and the drop of its guard is the one holder of the lock,
\* so no get reads the map while another handler's set or del is in progress.
C1_OneHandlerInTheMap ==
    /\ Cardinality({c \in Conns : pc[c] = "locked"}) <= 1
    /\ \A c \in Conns : pc[c] = "locked" => holder = c
    /\ \A c, d \in Conns :
          (c # d /\ pc[c] = "locked" /\ command[c] = GET) => pc[d] # "locked"

\* One handler holds the guard for a SET while another waits in get_store for
\* its GET.
C1_Witness ==
    \E c, d \in Conns :
        /\ c # d
        /\ pc[c] = "locked" /\ command[c] = SET /\ holder = c
        /\ pc[d] = "get_store" /\ command[d] = GET

\* C2: when a connection's GET k is applied and the last write applied to k is
\* that connection's own SET k v, the response to the GET is v.
C2_ReadYourWrite ==
    [][\A c \in Conns :
          /\ Delivers(c)
          /\ (Applies(c, GET) /\ LastIsSetBy(args[c][1], c))
                => response'[c] = lastWrite[args[c][1]].args[2]]_vars

\* A connection has got OK for its SET a x and holds x as the response to its
\* GET a, with another connection accepted.
C2_Witness ==
    \E c, d \in Conns :
        /\ c # d /\ pc[d] # "unconnected"
        /\ pc[c] = "write_all" /\ command[c] = GET /\ args[c] = <<Ka>>
        /\ outbox[c] = << OK \o <<"\n">> >>
        /\ LastIsSetBy(Ka, c) /\ lastWrite[Ka].args = <<Ka, Vx>>
        /\ response[c] = Vx

\* C3: the store is shared and outlives connections: when connection B's GET k
\* is applied and the last write applied to k is another connection A's SET k v
\* (A open or closed), the response to B's GET is v.
C3_SharedStore ==
    [][\A b \in Conns :
          /\ Delivers(b)
          /\ \A a \in Conns \ {b} :
                (Applies(b, GET) /\ LastIsSetBy(args[b][1], a))
                   => response'[b] = lastWrite[args[b][1]].args[2]]_vars

\* Connection 1 got OK for SET a x and has closed; connection 2 got x for GET a.
C3_Witness ==
    /\ NumConns >= 2
    /\ pc[1] = "closed" /\ outbox[1] = << OK \o <<"\n">> >>
    /\ LastIsSetBy(Ka, 1) /\ lastWrite[Ka].args = <<Ka, Vx>>
    /\ outbox[2] = << Vx \o <<"\n">> >>

\* C4: a key for which no SET was ever applied is not in the store (so a fresh
\* store has no keys), and a GET of such a key responds nil.
C4_NeverSetIsNil ==
    /\ [](\A k \in DOMAIN store : k \in DOMAIN written)
    /\ [][\A c \in Conns :
             /\ Delivers(c)
             /\ (Applies(c, GET) /\ args[c][1] \notin DOMAIN written)
                   => response'[c] = nil]_vars

\* A handler holds nil as the response to GET a, no SET a ever applied, though a
\* DEL a was.
C4_Witness ==
    \E c \in Conns :
        /\ pc[c] = "write_all" /\ command[c] = GET /\ args[c] = <<Ka>>
        /\ Ka \notin DOMAIN written
        /\ Ka \in DOMAIN lastWrite
        /\ response[c] = nil

\* C5: every applied SET k v responds OK and leaves v as the value of k,
\* whatever k held before; a GET k applied while that SET is the connection's
\* own last write to k responds v, never an earlier value.
C5_SetOverwrites ==
    [][\A c \in Conns :
          /\ Delivers(c)
          /\ Applies(c, SET) =>
                /\ response'[c] = OK
                /\ args[c][1] \in DOMAIN store'
                /\ store'[args[c][1]] = args[c][2]
          /\ (Applies(c, GET) /\ LastIsSetBy(args[c][1], c))
                => /\ response'[c] = lastWrite[args[c][1]].args[2]
                   /\ \A v \in written[args[c][1]] :
                         v # lastWrite[args[c][1]].args[2] => response'[c] # v]_vars

\* One connection has sent SET a x, set a y, GET a, has got OK and OK, and holds
\* y as the response to the GET.
C5_Witness ==
    \E c \in Conns :
        /\ outbox[c] = << OK \o <<"\n">>, OK \o <<"\n">> >>
        /\ pc[c] = "write_all" /\ command[c] = GET /\ args[c] = <<Ka>>
        /\ Ka \in DOMAIN written /\ written[Ka] = {Vx, Vy}
        /\ LastIsSetBy(Ka, c) /\ lastWrite[Ka].args = <<Ka, Vy>>
        /\ response[c] = Vy

\* C6: every applied DEL k responds OK, whether or not k was present, and
\* leaves k absent; a GET k applied while a DEL is the last write to k responds
\* nil.
C6_DelThenNil ==
    [][\A c \in Conns :
          /\ Delivers(c)
          /\ Applies(c, DEL) =>
                /\ response'[c] = OK
                /\ args[c][1] \notin DOMAIN store'
                /\ \A k \in DOMAIN store : k # args[c][1] => k \in DOMAIN store'
          /\ (Applies(c, GET) /\ args[c][1] \in DOMAIN lastWrite
                /\ lastWrite[args[c][1]].command = DEL)
                => response'[c] = nil]_vars

\* A handler holds nil as the response to GET a: a was set, then deleted.
C6_Witness ==
    \E c \in Conns :
        /\ pc[c] = "write_all" /\ command[c] = GET /\ args[c] = <<Ka>>
        /\ Ka \in DOMAIN written
        /\ lastWrite[Ka].command = DEL
        /\ response[c] = nil

\* Tokens t and u are the same but for the case of their letters.
SameLetters(t, u) ==
    /\ Len(t) = Len(u)
    /\ \A i \in 1..Len(t) :
          \/ t[i] = u[i]
          \/ \E j \in 1..26 : {t[i], u[i]} = {LowerCase[j], UpperCase[j]}

\* Handler c takes the next line of its connection in this step.
Reads(c) ==
    /\ pc[c] = "read_line" /\ inbox[c] # <<>>
    /\ pc'[c] # "closed" /\ inbox'[c] = Tail(inbox[c])

\* Handler c's response to its line is computed in this step.
Answers(c) == pc[c] # "write_all" /\ pc'[c] = "write_all"

Help == <<". Run 'miniredis --help' for more information.">>

\* The tokens of a in double quotes, separated by a comma and a blank, in
\* brackets.
Listing(a) ==
    <<"[">> \o join([i \in 1..Len(a) |-> <<"\"">> \o a[i] \o <<"\"">>], <<", ">>)
            \o <<"]">>

\* cmd applied n more times to map: the map left and what the last call returns.
RECURSIVE Repeat(_, _, _, _)
Repeat(cmd, arguments, map, n) ==
    IF n = 1 THEN call(cmd, arguments, map)
    ELSE Repeat(cmd, arguments, call(cmd, arguments, map).map, n - 1)

\* C7: GET and DEL are idempotent: when a GET k or DEL k has been applied,
\* applying it again any number of times leaves the store as the first
\* application left it, and each repetition gets the response of the first.
C7_GetDelIdempotent ==
    [][\A c \in Conns :
          (Applies(c, GET) \/ Applies(c, DEL)) =>
              \A n \in 1..MaxRepeat :
                 LET r == Repeat(command[c], args[c], store', n)
                 IN /\ r.map = store'
                    /\ response_of(handle_result(command[c], r.ret)) = response'[c]]_vars

\* A DEL a has removed a from a store that held a and b.
C7_Witness ==
    \E c \in Conns :
        /\ pc[c] = "write_all" /\ command[c] = DEL /\ args[c] = <<Ka>>
        /\ Ka \in DOMAIN written /\ lastWrite[Ka].command = DEL
        /\ DOMAIN store = { <<"b">> }
        /\ response[c] = OK

\* C8: command names are case-insensitive: the response a handler computes for
\* a line and the store it leaves are those of every line that differs from it
\* only in the case of the letters of its first token.
C8_CaseInsensitive ==
    [][\A c \in Conns :
          Answers(c) =>
              \A e \in LineTable :
                 e.line = line'[c] =>
                    \A t \in CmdTokens :
                       SameLetters(t, e.cmd) =>
                          iteration(make_line(e.layout.lead, <<t>> \o e.args,
                                              e.layout.sep, e.layout.trail), store)
                             = [response |-> Some(response'[c]), map |-> store']]_vars

\* A handler has stored x for a on the line "set a x".
C8_Witness ==
    \E c \in Conns :
        /\ pc[c] = "write_all"
        /\ line[c] = <<"s","e","t"," ","a"," ","x","\n">>
        /\ command[c] = SET
        /\ Ka \in DOMAIN store /\ store[Ka] = Vx
        /\ response[c] = OK

\* The token is GET, SET or DEL in some case, with a number of arguments the
\* command does not take.
WrongArity(e) ==
    \/ SameLetters(e.cmd, GET) /\ Len(e.args) # 1
    \/ SameLetters(e.cmd, SET) /\ Len(e.args) # 2
    \/ SameLetters(e.cmd, DEL) /\ Len(e.args) # 1

\* C9: a GET or DEL line with other than one argument and a SET line with other
\* than two get the Invalid arguments response listing the arguments given, in
\* order, and nothing else happens: no lock is taken and the store is as it was.
C9_WrongArity ==
    [][\A c \in Conns :
          /\ Delivers(c)
          /\ Reads(c) =>
                \A e \in LineTable :
                   (e.line = Head(inbox[c]) /\ WrongArity(e)) =>
                       /\ pc'[c] = "write_all"
                       /\ response'[c] =
                             <<"Invalid arguments: ">> \o Listing(e.args) \o Help
                       /\ store' = store /\ holder' = holder
                       /\ lastWrite' = lastWrite /\ written' = written]_vars

\* A handler holds the Invalid arguments response to "GeT a b".
C9_Witness ==
    \E c \in Conns :
        /\ pc[c] = "write_all"
        /\ line[c] = <<"G","e","T"," ","a"," ","b","\n">>
        /\ response[c] = <<"Invalid arguments: ", "[", "\"", "a", "\"", ", ",
                           "\"", "b", "\"", "]",
                           ". Run 'miniredis --help' for more information.">>

\* C10: a line whose first token, upper-cased, is not GET, SET or DEL gets the
\* Invalid command response naming the upper-cased token, however many
\* arguments follow, and the store is as it was.
C10_UnknownCommand ==
    [][\A c \in Conns :
          /\ Delivers(c)
          /\ Reads(c) =>
                \A e \in LineTable :
                   (e.line = Head(inbox[c])
                      /\ to_uppercase(e.cmd) \notin {GET, SET, DEL}) =>
                       /\ pc'[c] = "write_all"
                       /\ response'[c] =
                             <<"Invalid command: ">> \o to_uppercase(e.cmd) \o Help
                       /\ store' = store /\ holder' = holder]_vars

\* A handler holds the Invalid command response to "foo a b x".
C10_Witness ==
    \E c \in Conns :
        /\ pc[c] = "write_all"
        /\ line[c] = <<"f","o","o"," ","a"," ","b"," ","x","\n">>
        /\ response[c] = <<"Invalid command: ", "F", "O", "O",
                           ". Run 'miniredis --help' for more information.">>

\* A line of blanks, tabs, carriage returns and newlines only.
IsBlank(l) == \A i \in 1..Len(l) : l[i] \in {" ", "\t", "\r", "\n"}

\* C11: when a handler takes an empty or whitespace-only line, it writes
\* nothing, computes no response, takes no lock, leaves the store and its
\* history alone, and is back at reading with the rest of its input.
C11_BlankLineSkipped ==
    [][\A c \in Conns :
          (Reads(c) /\ IsBlank(Head(inbox[c]))) =>
              /\ pc'[c] = "read_line" /\ result'[c] = None
              /\ outbox' = outbox /\ response' = response
              /\ store' = store /\ holder' = holder
              /\ lastLock' = lastLock /\ lastWrite' = lastWrite
              /\ written' = written]_vars

\* A connection pipelined an empty line, a whitespace-only line and "get a",
\* and has got the one line nil.
C11_Witness ==
    \E c \in Conns :
        /\ pipelined[c] = << <<"\n">>, <<" ", "\t", "\r", "\n">>,
                             <<"g","e","t"," ","a","\n">> >>
        /\ outbox[c] = << nil \o <<"\n">> >>
        /\ pc[c] = "read_line"

\* What a pipelined line asks for.
Meaning(l) ==
    CASE l = <<"S","E","T"," ","a"," ","x","\n">> ->
            [kind |-> "set", key |-> <<"a">>, value |-> <<"x">>]
      [] l = <<"g","e","t"," ","a","\n">> -> [kind |-> "get", key |-> <<"a">>]
      [] l = <<"D","E","L"," ","a","\n">> -> [kind |-> "del", key |-> <<"a">>]
      [] l = <<"F","O","O","\n">> -> [kind |-> "unknown", name |-> <<"F","O","O">>]
      [] OTHER -> [kind |-> "blank"]

\* The response line the protocol prescribes for line l on map (none for a
\* blank line), and the map afterwards.
Served(l, map) ==
    LET m == Meaning(l)
    IN CASE m.kind = "set" ->
               [out |-> << OK \o <<"\n">> >>, map |-> Record(map, m.key, m.value)]
         [] m.kind = "get" ->
               [out |-> << (IF m.key \in DOMAIN map THEN map[m.key] ELSE nil)
                              \o <<"\n">> >>,
                map |-> map]
         [] m.kind = "del" ->
               [out |-> << OK \o <<"\n">> >>,
                map |-> [k \in DOMAIN map \ {m.key} |-> map[k]]]
         [] m.kind = "unknown" ->
               [out |-> << <<"Invalid command: ">> \o m.name \o Help \o <<"\n">> >>,
                map |-> map]
         [] OTHER -> [out |-> <<>>, map |-> map]

\* The lines of ls served one after the other, from map.
RECURSIVE Run(_, _)
Run(ls, map) ==
    IF ls = <<>> THEN [out |-> <<>>, map |-> map]
    ELSE LET h == Served(Head(ls), map)
             r == Run(Tail(ls), h.map)
         IN [out |-> h.out \o r.out, map |-> r.map]

\* The handler is between taking a line and having written its response.
Busy(c) == pc[c] \in {"get_store", "locked", "write_all"}

\* The number of its pipelined lines handler c has taken.
Consumed(c) == Len(pipelined[c]) - Len(inbox[c])

\* The pipelined lines handler c has taken and is through with.
Done(c) == SubSeq(pipelined[c], 1, Consumed(c) - (IF Busy(c) THEN 1 ELSE 0))

\* The line in ls that the i-th response is for.
RECURSIVE Asked(_, _)
Asked(ls, i) ==
    IF IsBlank(Head(ls)) THEN Asked(Tail(ls), i)
    ELSE IF i = 1 THEN Head(ls) ELSE Asked(Tail(ls), i - 1)

\* C12: a handler takes its connection's lines in the order they were
\* received, also when the client has pipelined them: what it has not taken is
\* the rest of what was sent, the command it applies is that of the line taken
\* last, and the i-th response line it wrote answers the i-th non-blank line.
\* Where no other connection has any input, the responses and the store are
\* exactly those of serving the lines one after the other.
C12_InOrder ==
    \A c \in Conns :
        /\ inbox[c] = SubSeq(pipelined[c], Consumed(c) + 1, Len(pipelined[c]))
        /\ Busy(c) =>
              /\ Consumed(c) >= 1
              /\ line[c] = pipelined[c][Consumed(c)]
              /\ LET m == Meaning(line[c])
                 IN /\ m.kind # "blank"
                    /\ m.kind = "set" => command[c] = SET /\ args[c] = <<m.key, m.value>>
                    /\ m.kind = "get" => command[c] = GET /\ args[c] = <<m.key>>
                    /\ m.kind = "del" => command[c] = DEL /\ args[c] = <<m.key>>
                    /\ m.kind = "unknown" => command[c] = m.name /\ args[c] = <<>>
        /\ Len(outbox[c]) = Len(Run(Done(c), EmptyMap).out)
        /\ \A i \in 1..Len(outbox[c]) :
              LET l == Asked(Done(c), i)
              IN IF Meaning(l).kind = "get"
                 THEN outbox[c][i] \in { nil \o <<"\n">>, <<"x", "\n">> }
                 ELSE << outbox[c][i] >> = Served(l, EmptyMap).out
        /\ (\A d \in Conns \ {c} : pipelined[d] = <<>>) =>
              LET before == Run(Done(c), EmptyMap)
                  after == Served(line[c], before.map)
              IN /\ outbox[c] = before.out
                 /\ store = IF pc[c] = "write_all" THEN after.map ELSE before.map
                 /\ pc[c] = "write_all" => << response[c] \o <<"\n">> >> = after.out

\* A connection pipelined "get a", "SET a x", "get a" and has got nil, OK and
\* x, in this order.
C12_Witness ==
    \E c \in Conns :
        /\ pipelined[c] = << <<"g","e","t"," ","a","\n">>,
                             <<"S","E","T"," ","a"," ","x","\n">>,
                             <<"g","e","t"," ","a","\n">> >>
        /\ outbox[c] = << nil \o <<"\n">>, OK \o <<"\n">>, <<"x", "\n">> >>

\* The lines of ls that are not blank.
NonBlank(ls) == SelectSeq(ls, LAMBDA l : ~IsBlank(l))

\* The values ever stored.
Stored == UNION { written[k] : k \in DOMAIN written }

\* Text r is one response line: OK, a stored value, nil or an error message,
\* followed by the only newline in it.
ResponseLine(r) ==
    /\ Len(r) >= 2
    /\ r[Len(r)] = "\n"
    /\ \A j \in 1..(Len(r) - 1) : r[j] # "\n"
    /\ LET body == SubSeq(r, 1, Len(r) - 1)
       IN \/ body \in {OK, nil}
          \/ body \in Stored
          \/ body = <<"Could not access the key value store as it is locked.">>
          \/ /\ body[1] \in {"Invalid command: ", "Invalid arguments: "}
             /\ body[Len(body)] = Help[1]

\* C13: a handler has written exactly one response line for every non-blank
\* line it has taken and is through with, no line for a blank one, and every
\* line it wrote is OK, a stored value, nil or an error message, ended by a
\* newline.
C13_OneLinePerCommand ==
    \A c \in Conns :
        /\ Len(outbox[c]) =
              Len(NonBlank(SubSeq(pipelined[c], 1, Consumed(c))))
                 - (IF Busy(c) THEN 1 ELSE 0)
        /\ \A i \in 1..Len(outbox[c]) : ResponseLine(outbox[c][i])

\* A handler has worked off "FOO", an empty line and "get a": it wrote two
\* lines, the error message and nil, and returned at the end of the stream.
C13_Witness ==
    \E c \in Conns :
        /\ pipelined[c] = << <<"F","O","O","\n">>, <<"\n">>,
                             <<"g","e","t"," ","a","\n">> >>
        /\ pc[c] = "closed" /\ result[c] = Some(Ok(Unit))
        /\ outbox[c] = << <<"Invalid command: ", "F", "O", "O",
                            ". Run 'miniredis --help' for more information.",
                            "\n">>,
                          nil \o <<"\n">> >>

\* The value of the last line of ls that sets connection c's key, if any.
RECURSIVE LastSet(_, _)
LastSet(c, ls) ==
    IF ls = <<>> THEN None
    ELSE LET l == ls[Len(ls)]
         IN IF \E v \in OwnValues(c) : l = Line(<<SET, Key(c), v>>)
            THEN Some(CHOOSE v \in OwnValues(c) : l = Line(<<SET, Key(c), v>>))
            ELSE LastSet(c, SubSeq(ls, 1, Len(ls) - 1))

\* C14: with every connection writing a key of its own, under every
\* interleaving of the handlers the response a connection gets to a GET of its
\* key sent after a SET of it is the value of the last SET it sent before, and
\* the response it holds for such a GET is that value already.
C14_NoCrossTalk ==
    \A c \in Conns :
        /\ \A i \in 1..Len(outbox[c]) :
              LET own == LastSet(c, SubSeq(pipelined[c], 1, i - 1))
              IN (pipelined[c][i] = Line(<<GET, Key(c)>>) /\ own # None)
                    => outbox[c][i] = own.value \o <<"\n">>
        /\ (pc[c] = "write_all" /\ command[c] = GET) =>
              LET own == LastSet(c, SubSeq(pipelined[c], 1, Consumed(c) - 1))
              IN own # None => response[c] = own.value

\* One connection has set its key and read its value back, another has set
\* its own key, and the store holds both.
C14_Witness ==
    \E c, d \in Conns :
        /\ c # d
        /\ pipelined[c] = << Line(<<SET, Key(c), << UpperCase[c] >> >>),
                             Line(<<GET, Key(c)>>) >>
        /\ outbox[c] = << OK \o <<"\n">>, << UpperCase[c], "\n" >> >>
        /\ outbox[d] = << OK \o <<"\n">> >>
        /\ DOMAIN store = { Key(c), Key(d) }

\* C15: no value out of thin air: the store holds for a key only a value some
\* applied SET of that key gave, and when a GET k is applied after at least one
\* SET k was, from whichever connections, the response is one of the values
\* those SETs gave, whole, or nil, and nil only if the last write applied to k
\* is a DEL.
C15_NoThinAir ==
    /\ [](\A k \in DOMAIN store : k \in DOMAIN written /\ store[k] \in written[k])
    /\ [][\A c \in Conns :
             (Applies(c, GET) /\ args[c][1] \in DOMAIN written) =>
                 /\ response'[c] \in written[args[c][1]] \cup {nil}
                 /\ response'[c] = nil => lastWrite[args[c][1]].command = DEL
                 /\ Delivers(c)]_vars

\* Two values were set for a, the last one by another connection than the one
\* that holds it as the response to its GET a after a SET of its own.
C15_Witness ==
    \E c, d \in Conns :
        /\ c # d
        /\ pc[c] = "write_all" /\ command[c] = GET /\ args[c] = <<Ka>>
        /\ outbox[c] = << OK \o <<"\n">> >>
        /\ Ka \in DOMAIN written /\ written[Ka] = {Vx, Vy}
        /\ LastIsSetBy(Ka, d)
        /\ response[c] = lastWrite[Ka].args[2]

\* C16: last lock wins: whenever no handler holds the guard, a key for which
\* the guard was last taken by a SET holds the value of that SET, whichever
\* connection sent it and whatever the order of the lines and the responses.
C16_LastLockWins ==
    holder = 0 =>
        \A k \in DOMAIN lastLock :
            lastLock[k].command = SET =>
                k \in DOMAIN store /\ store[k] = lastLock[k].args[2]

\* Two connections have each sent one SET of a, with different values, and
\* both have got OK; the store holds the value of the one that took the guard
\* last.
C16_Witness ==
    \E c, d \in Conns :
        /\ c # d
        /\ outbox[c] = << OK \o <<"\n">> >> /\ pc[c] = "read_line"
        /\ outbox[d] = << OK \o <<"\n">> >> /\ pc[d] = "read_line"
        /\ Ka \in DOMAIN written /\ written[Ka] = {Vx, Vy}
        /\ holder = 0 /\ nsent = 2
        /\ lastLock[Ka].conn = c /\ store[Ka] = lastLock[Ka].args[2]

LockedMessage == <<"Could not access the key value store as it is locked.">>

\* Nothing of a connection other than c changes in this step.
OthersUntouched(c) ==
    \A d \in Conns \ {c} :
        /\ pc'[d] = pc[d] /\ result'[d] = result[d]
        /\ inbox'[d] = inbox[d] /\ outbox'[d] = outbox[d]
        /\ line'[d] = line[d] /\ command'[d] = command[d]
        /\ args'[d] = args[d] /\ response'[d] = response[d]

\* C17: when a handler's store call finds the mutex poisoned, the handler
\* holds the StoreLocked message as the response to that command, the store and
\* the other connections are as they were, and it keeps running; it writes the
\* message as one line and is back at reading its next line.
C17_StoreLockedIsAResponse ==
    [][\A c \in Conns :
          /\ (pc[c] = "get_store" /\ poisoned /\ pc'[c] # "get_store") =>
                /\ pc'[c] = "write_all" /\ result'[c] = None
                /\ response'[c] = LockedMessage
                /\ inbox'[c] = inbox[c] /\ outbox'[c] = outbox[c]
                /\ store' = store /\ holder' = holder
                /\ OthersUntouched(c)
          /\ (pc[c] = "write_all" /\ response[c] = LockedMessage
                /\ pc'[c] # "write_all") =>
                /\ pc'[c] = "read_line" /\ result'[c] = None
                /\ outbox'[c] = Append(outbox[c], LockedMessage \o <<"\n">>)
                /\ inbox'[c] = inbox[c]
                /\ OthersUntouched(c)]_vars

\* A handler panicked holding the guard; another connection's handler has
\* written the StoreLocked message for its first command, has gone on to its
\* second, written the message again, and is still running.
C17_Witness ==
    \E c, d \in Conns :
        /\ c # d
        /\ poisoned /\ result[c] = Some(Panicked)
        /\ Len(pipelined[d]) = 2
        /\ outbox[d] = << LockedMessage \o <<"\n">>, LockedMessage \o <<"\n">> >>
        /\ pc[d] = "read_line" /\ result[d] = None

\* C18: a handler that ends at read_line without a read error does so on the
\* end of the stream: it has no input left, returns Ok(()), and the step writes
\* nothing and touches neither the store nor the lock nor another connection;
\* once it has ended it stays so and nothing more is written to its connection.
C18_EofClosesCleanly ==
    [][\A c \in Conns :
          /\ (pc[c] = "read_line" /\ pc'[c] = "closed"
                /\ result'[c] # Some(Err(StreamNotReadable))) =>
                /\ inbox[c] = <<>>
                /\ result'[c] = Some(Ok(Unit))
                /\ outbox' = outbox
                /\ store' = store /\ holder' = holder /\ poisoned' = poisoned
                /\ lastLock' = lastLock /\ lastWrite' = lastWrite
                /\ written' = written
                /\ OthersUntouched(c)
          /\ pc[c] = "closed" =>
                /\ pc'[c] = "closed" /\ result'[c] = result[c]
                /\ outbox'[c] = outbox[c]]_vars

\* A handler has answered SET a x and get its OK out, and has returned Ok(())
\* at the end of the stream; the store still holds a.
C18_Witness ==
    \E c \in Conns :
        /\ pc[c] = "closed" /\ result[c] = Some(Ok(Unit))
        /\ outbox[c] = << OK \o <<"\n">> >>
        /\ LastIsSetBy(Ka, c)
        /\ Ka \in DOMAIN store

\* C19: a failing read or write ends the handler of its connection and nothing
\* else: in that step the listener, the store, the lock and every other
\* connection and handler are as they were, and the handler that ends does not
\* hold the guard; the guard is only ever held by a handler inside a map
\* operation, and the mutex is never poisoned, so the store stays usable.
C19_FailureIsLocal ==
    /\ [](/\ ~poisoned
          /\ holder # 0 => (holder \in Conns /\ pc[holder] = "locked"))
    /\ [][\A c \in Conns :
             (pc[c] # "closed" /\ pc'[c] = "closed"
                /\ result'[c] \in { Some(Err(StreamNotReadable)),
                                    Some(Err(StreamNotWritable)) }) =>
                 /\ listener' = listener
                 /\ store' = store /\ holder' = holder /\ holder # c
                 /\ lastLock' = lastLock /\ lastWrite' = lastWrite
                 /\ written' = written
                 /\ OthersUntouched(c)]_vars

\* A handler has stored x for a and failed to write its response; the listener
\* is still listening and another connection has got x for its GET a.
C19_Witness ==
    \E c, d \in Conns :
        /\ c # d
        /\ pc[c] = "closed" /\ result[c] = Some(Err(StreamNotWritable))
        /\ LastIsSetBy(Ka, c) /\ lastWrite[Ka].args = <<Ka, Vx>>
        /\ listener = "listening"
        /\ outbox[d] = << Vx \o <<"\n">> >>
        /\ pc[d] = "read_line"

\* C20: the accept loop outlives a failing accept: Server::run returns only
\* when the bind fails, with AddressNotBound.
C20_OnlyBindFailureEndsRun ==
    run_result # None => run_result = Some(Err(AddressNotBound))

\* C21: when the bind fails, Server::run has returned AddressNotBound and the
\* server binary exits with status 1; no connection was accepted, no handler
\* runs, nothing was received or written, and nothing happens any more: there
\* is no second bind.
C21_BindFailureIsFatal ==
    /\ [](listener = "failed" =>
             /\ run_result = Some(Err(AddressNotBound))
             /\ exit_status = Some(1)
             /\ \A c \in Conns :
                   /\ pc[c] = "unconnected" /\ result[c] = None
                   /\ inbox[c] = <<>> /\ outbox[c] = <<>>
             /\ store = EmptyMap /\ holder = 0)
    /\ [][listener = "failed" => UNCHANGED vars]_vars

\* The bind has failed.
C21_Witness ==
    /\ listener = "failed"
    /\ run_result = Some(Err(AddressNotBound))
    /\ \A c \in Conns : pc[c] = "unconnected"

\* C22: the accept loop never waits for a handler: while the listener
\* listens, the next connection can be accepted whatever the handlers of the
\* connections accepted before are doing, waiting for a line, waiting for the
\* guard, inside a map operation or writing.
C22_AcceptNeverWaits ==
    \A c \in Conns :
        (/\ listener = "listening"
         /\ pc[c] = "unconnected"
         /\ \A d \in Conns : d < c => pc[d] # "unconnected")
            => ENABLED Accept(c)

\* A handler is inside a map operation, holding the guard, and the next
\* connection is yet to be accepted.
C22_Witness ==
    \E c, d \in Conns :
        /\ c # d
        /\ listener = "listening"
        /\ pc[d] = "locked" /\ holder = d
        /\ pc[c] = "unconnected"

\* C23: a connection is persistent: whatever response a handler has written,
\* OK, a value, nil or an error message, it is back at reading with the
\* connection open and its input as it was; a handler returns only at the end
\* of the stream, with Ok(()), or on a read or write that failed (a thread that
\* panics under the guard does not return).
C23_PersistentConnection ==
    [][\A c \in Conns :
          /\ (pc[c] = "write_all" /\ pc'[c] # "write_all"
                /\ result'[c] # Some(Err(StreamNotWritable))) =>
                /\ pc'[c] = "read_line" /\ result'[c] = None
                /\ inbox'[c] = inbox[c]
                /\ outbox'[c] = Append(outbox[c], response[c] \o <<"\n">>)
          /\ (pc[c] # "closed" /\ pc'[c] = "closed") =>
                \/ /\ result'[c] = Some(Ok(Unit))
                   /\ pc[c] = "read_line" /\ inbox[c] = <<>>
                \/ /\ result'[c] = Some(Err(StreamNotReadable))
                   /\ pc[c] = "read_line"
                \/ /\ result'[c] = Some(Err(StreamNotWritable))
                   /\ pc[c] = "write_all"
                \/ /\ result'[c] = Some(Panicked)
                   /\ pc[c] = "locked"]_vars

\* A handler has written the Invalid arguments message and then the
\* StoreLocked message, and is reading on.
C23_Witness ==
    \E c \in Conns :
        /\ outbox[c] = << <<"Invalid arguments: ", "[", "]",
                            ". Run 'miniredis --help' for more information.",
                            "\n">>,
                          LockedMessage \o <<"\n">> >>
        /\ pc[c] = "read_line" /\ result[c] = None

\* C24: responses and errors go to the issuing client only: a connection's
\* output grows only by its own handler writing the response it holds, and no
\* other connection's output with it; the response a handler comes to hold is
\* the one the protocol prescribes for the line it took from its own connection
\* on the store as it is; and a step of one handler changes nothing of another
\* connection or handler.
C24_ResponsesStayPrivate ==
    [][\A c \in Conns :
          /\ outbox'[c] # outbox[c] =>
                /\ pc[c] = "write_all"
                /\ outbox'[c] = Append(outbox[c], response[c] \o <<"\n">>)
                /\ \A d \in Conns \ {c} : outbox'[d] = outbox[d]
          /\ (response'[c] # response[c] /\ response'[c] # <<>>) =>
                /\ Len(inbox'[c]) < Len(pipelined[c])
                /\ line'[c] = pipelined[c][Len(pipelined[c]) - Len(inbox'[c])]
                /\ << response'[c] \o <<"\n">> >> = Served(line'[c], store).out
          /\ pc'[c] # pc[c] => OthersUntouched(c)]_vars

\* One connection has got the Invalid command message for its FOO, another
\* one OK for its SET a x and x for its get a, and neither anything else.
C24_Witness ==
    \E c, d \in Conns :
        /\ c # d
        /\ pipelined[c] = << <<"F","O","O","\n">> >>
        /\ outbox[c] = << <<"Invalid command: ", "F", "O", "O",
                            ". Run 'miniredis --help' for more information.",
                            "\n">> >>
        /\ pipelined[d] = << <<"S","E","T"," ","a"," ","x","\n">>,
                             <<"g","e","t"," ","a","\n">> >>
        /\ outbox[d] = << OK \o <<"\n">>, <<"x", "\n">> >>

\* C25: under fair scheduling, with no handler failing while it holds the
\* guard, whenever handlers wait for the guard one of them gets it, and in the
\* end the guard is free, every command received has got its response line and
\* every handler has returned at the end of its stream: every store operation
\* started has completed and the handlers never block each other for good.
C25_EveryCommandAnswered ==
    /\ (\E c \in Conns : pc[c] = "get_store") ~> (\E c \in Conns : pc[c] = "locked")
    /\ <>[](/\ holder = 0
            /\ \A c \in Conns :
                  /\ Len(outbox[c]) = Len(pipelined[c])
                  /\ pc[c] = "closed" /\ result[c] = Some(Ok(Unit)))

\* Two handlers wait for the guard at once, each with a command of its own
\* connection.
C25_Witness ==
    \E c, d \in Conns :
        /\ c # d
        /\ holder = 0
        /\ pc[c] = "get_store" /\ pc[d] = "get_store"

C29_GetNeverMutates ==
    [][\A c \in Conns :
          (/\ command[c] = GET
           /\ pc[c] \in {"get_store", "locked"}
           /\ pc'[c] # pc[c]) =>
                /\ DOMAIN store' = DOMAIN store
                /\ \A k \in DOMAIN store : store'[k] = store[k]]_vars

\* GET b has been answered nil on a store that holds only a, and the store
\* still holds only a.
C29_Witness ==
    /\ pc[1] = "write_all" /\ command[1] = GET /\ args[1] = << <<"b">> >>
    /\ response[1] = nil
    /\ DOMAIN store = { <<"a">> } /\ store[<<"a">>] = <<"x">>
    /\ DOMAIN lastWrite = { <<"a">> }

\* C30: SET k v and DEL k change only key k: every other key is present after
\* the operation exactly if it was before, with the same value; DEL of an
\* absent key leaves the whole mapping as it was.
C30_OtherKeysUntouched ==
    [][\A c \in Conns :
          /\ (Applies(c, SET) \/ Applies(c, DEL)) =>
                \A j \in (DOMAIN store \cup DOMAIN store') \ {args[c][1]} :
                    /\ j \in DOMAIN store /\ j \in DOMAIN store'
                    /\ store'[j] = store[j]
          /\ (Applies(c, DEL) /\ args[c][1] \notin DOMAIN store) =>
                store' = store]_vars

\* DEL b has been applied to a store that holds only a; a is still there with
\* its value.
C30_Witness ==
    /\ pc[1] = "write_all" /\ command[1] = DEL /\ args[1] = << <<"b">> >>
    /\ response[1] = OK
    /\ <<"b">> \in DOMAIN lastWrite /\ lastWrite[<<"b">>].command = DEL
    /\ DOMAIN store = { <<"a">> } /\ store[<<"a">>] = <<"x">>

\* A line that reads quit: the word alone, with or without the newline of the
\* Enter key.
IsQuit(l) == l \in { quit, quit \o <<"\n">> }

\* The lines that make the server do nothing: nothing but whitespace.
OnlyBlank(ls) == \A i \in 1..Len(ls) : IsBlank(ls[i])

\* C27: when the client reads a line that consists of quit from the terminal,
\* its loop ends there, and neither that line nor anything else goes to the
\* server from then on.
C27_QuitStaysLocal ==
    [][/\ (cpc = "read_input" /\ stdin # <<>> /\ IsQuit(Head(stdin))
              /\ stdin' # stdin) =>
                (cpc' = "done" /\ inbox' = inbox)
       /\ (cpc = "send_input" /\ cpc' # cpc) => ~IsQuit(input)]_vars

\* C28: client and server stay in lock-step.  The responses printed are the
\* server's, one by one as written; when the client prompts, every response
\* written has been printed and the server has nothing left to answer; and
\* the client never waits for a response while the server, having answered
\* all it got, waits for the client.
C28_LockStep ==
    /\ Len(printed) <= Len(outbox[ClientConn])
    /\ \A i \in 1..Len(printed) : printed[i] = outbox[ClientConn][i] \o <<"\n">>
    /\ (cpc = "read_input" /\ pc[ClientConn] # "closed") =>
          /\ Len(printed) = Len(outbox[ClientConn])
          /\ pc[ClientConn] = "read_line"
          /\ OnlyBlank(inbox[ClientConn])
    /\ ~(/\ cpc = "read_response"
         /\ Len(printed) = Len(outbox[ClientConn])
         /\ pc[ClientConn] = "read_line"
         /\ inbox[ClientConn] = <<>>)

\* Token t has no lower-case letter.
NoLowerCase(t) == \A i \in 1..Len(t) : \A j \in 1..26 : t[i] # LowerCase[j]

\* C31: parse_command splits a line on runs of whitespace, leading and
\* trailing whitespace and the line terminator ignored: the command name is the
\* first token in upper case, the arguments are the other tokens in their
\* order, as written; there is no command exactly when the line has nothing
\* but whitespace.
C31_ParseCommand ==
    [][\A c \in Conns :
          (pc[c] = "read_line" /\ inbox[c] # <<>> /\ inbox'[c] = Tail(inbox[c])) =>
              IF IsBlank(Head(inbox[c]))
              THEN /\ pc'[c] = "read_line"
                   /\ command'[c] = command[c] /\ args'[c] = args[c]
              ELSE /\ pc'[c] \in {"get_store", "write_all"}
                   /\ \E e \in ParseTable : e.line = Head(inbox[c])
                   /\ \A e \in ParseTable :
                         e.line = Head(inbox[c]) =>
                             /\ SameLetters(command'[c], e.cmd)
                             /\ NoLowerCase(command'[c])
                             /\ args'[c] = e.args]_vars

\* The handler has taken "sEt Ab x", written with tabs and blanks around and
\* between the tokens and ended by a carriage return and a newline: the
\* command is SET and the arguments are Ab and x.
C31_Witness ==
    /\ line[1] = make_line(<<" ", "\t">>,
                           << <<"s","E","t">>, <<"A","b">>, <<"x">> >>,
                           <<"\t", " ">>, <<" ", "\r", "\n">>)
    /\ pc[1] = "get_store"
    /\ command[1] = SET
    /\ args[1] = << <<"A","b">>, <<"x">> >>

\* C32: the lock is held for one map operation only.  A handler holds it
\* exactly while it is inside get, set or del; a command taken from the
\* connection gets to the store call once, takes the lock once when it is free,
\* and has released it, with nothing written yet, when the response is in
\* hand; and a store call can take the lock whenever no other handler is
\* inside a map operation, whatever the other handlers wait for on their
\* sockets.
C32_LockOnlyForMapOp ==
    /\ [](\A c \in Conns :
            /\ holder = c <=> pc[c] = "locked"
            /\ (pc[c] = "get_store" /\ \A d \in Conns \ {c} : pc[d] # "locked")
                  => ENABLED GetStore(c))
    /\ [][\A c \in Conns :
            /\ (pc'[c] = "get_store" /\ pc[c] # "get_store") =>
                  /\ pc[c] = "read_line"
                  /\ inbox[c] # <<>> /\ inbox'[c] = Tail(inbox[c])
                  /\ holder' = holder
            /\ (pc[c] = "get_store" /\ pc'[c] # "get_store") =>
                  /\ pc'[c] = "locked"
                  /\ holder = 0 /\ holder' = c
            /\ (pc[c] = "locked" /\ pc'[c] # "locked") =>
                  /\ pc'[c] = "write_all"
                  /\ holder' = 0
                  /\ outbox'[c] = outbox[c]
            /\ (pc[c] = "write_all" /\ pc'[c] # "write_all") => holder' = holder]_vars

\* A handler has the response to its SET in hand and has not written it yet,
\* while another connection's handler is inside its own map operation.
C32_Witness ==
    \E c, d \in Conns :
        /\ c # d
        /\ pc[c] = "write_all" /\ command[c] = SET /\ response[c] = OK
        /\ outbox[c] = <<>>
        /\ pc[d] = "locked" /\ holder = d

\* The response to a line that is rejected: GET without a key, and FOO.
Rejection(l) ==
    CASE l = <<"G","E","T","\n">> -> Some(<<"Invalid arguments: ", "[", "]">> \o Help)
      [] l = <<"F","O","O","\n">> -> Some(<<"Invalid command: ", "F","O","O">> \o Help)
      [] OTHER -> None

\* C33: a command rejected with InvalidArguments or InvalidCommand performs no
\* store operation.  Taking its line gives the handler the rejection as the
\* response at once, with the store, the lock and their history untouched,
\* also when the mutex is poisoned; a handler working on such a line is never
\* in a store call and never holds the StoreLocked message.
C33_RejectedTouchesNoStore ==
    /\ [](\A c \in Conns :
            Rejection(line[c]) # None =>
                /\ pc[c] = "write_all"
                /\ holder # c
                /\ response[c] = Rejection(line[c]).value
                /\ response[c] # LockedMessage)
    /\ [][\A c \in Conns :
            (Reads(c) /\ Rejection(Head(inbox[c])) # None) =>
                /\ pc'[c] = "write_all"
                /\ response'[c] = Rejection(Head(inbox[c])).value
                /\ store' = store /\ holder' = holder /\ poisoned' = poisoned
                /\ lastLock' = lastLock /\ lastWrite' = lastWrite
                /\ written' = written]_vars

\* The mutex is poisoned: a handler has written the StoreLocked message for
\* its first command, and holds the Invalid arguments message for the GET
\* without a key that it took next.
C33_Witness ==
    \E c \in Conns :
        /\ poisoned
        /\ outbox[c] = << LockedMessage \o <<"\n">> >>
        /\ pc[c] = "write_all" /\ line[c] = <<"G","E","T","\n">>
        /\ response[c] = <<"Invalid arguments: ", "[", "]">> \o Help

\* The map that a sequence of SET and DEL operations, applied one at a time to
\* an empty map, leaves: a key is there exactly if the last operation on it is
\* a SET, with that SET's value.  h has the last operation on each key.
Sequential(h) ==
    [k \in { j \in DOMAIN h : h[j].command = SET } |-> h[k].args[2]]

\* The operations the lock was taken for, in the order it was taken, with the
\* one in progress left out.
Completed ==
    IF holder = 0 \/ command[holder] = GET THEN lastLock
    ELSE lastWrite

\* C34: the concurrent server refines a sequential map.  The SET and DEL
\* operations completed are, in their order, those the lock was taken for
\* (but for the one that holds it now), the store is the map that applying
\* them in this order to an empty map leaves, and a GET's response is what
\* that map holds for the key when the GET has the lock: the value, or nil.
C34_RefinesSequentialMap ==
    /\ [](/\ lastWrite = Completed
          /\ store = Sequential(Completed)
          /\ holder # 0 =>
                lastLock = IF command[holder] = GET THEN lastWrite
                           ELSE Record(lastWrite, args[holder][1],
                                       [conn |-> holder, command |-> command[holder],
                                        args |-> args[holder]]))
    /\ [][\A c \in Conns :
            Applies(c, GET) =>
                /\ store' = store
                /\ response'[c] =
                      IF args[c][1] \in DOMAIN Sequential(lastLock)
                      THEN Sequential(lastLock)[args[c][1]]
                      ELSE nil]_vars

\* Two connections have set a, to x and to y; the connection whose SET took
\* the lock first now has the lock for its GET a, and the store holds the
\* other's value.
C34_Witness ==
    \E c, d \in Conns :
        /\ c # d
        /\ outbox[d] = << OK \o <<"\n">> >>
        /\ pc[d] = "locked" /\ command[d] = GET /\ args[d] = <<Ka>>
        /\ Ka \in DOMAIN written /\ written[Ka] = {Vx, Vy}
        /\ lastLock[Ka].conn = c /\ lastLock[Ka].command = SET
        /\ Ka \in DOMAIN store /\ store[Ka] = lastLock[Ka].args[2]

\* C35: the store operation of a command takes effect before its response is
\* written and is not rolled back.  A handler comes to hold OK only by the
\* step that applies its SET or DEL, with nothing written yet; writing the
\* response, or failing to, changes neither the store nor the record of the
\* operations applied.
C35_EffectBeforeResponse ==
    [][\A c \in Conns :
          /\ (pc[c] # "write_all" /\ pc'[c] = "write_all" /\ response'[c] = OK) =>
                /\ pc[c] = "locked" /\ command[c] \in {SET, DEL}
                /\ outbox'[c] = outbox[c]
                /\ lastWrite'[args[c][1]] =
                      [conn |-> c, command |-> command[c], args |-> args[c]]
                /\ command[c] = SET =>
                      /\ args[c][1] \in DOMAIN store'
                      /\ store'[args[c][1]] = args[c][2]
                /\ command[c] = DEL => args[c][1] \notin DOMAIN store'
          /\ outbox'[c] # outbox[c] =>
                /\ pc[c] = "write_all"
                /\ store' = store /\ lastWrite' = lastWrite /\ written' = written
          /\ (pc[c] = "write_all" /\ pc'[c] = "closed") =>
                /\ result'[c] = Some(Err(StreamNotWritable))
                /\ store' = store /\ lastWrite' = lastWrite /\ written' = written]_vars

\* The write of the response to a connection's SET a x has failed and its
\* handler has returned, the client having got nothing; the store holds x for
\* a, and another connection's handler holds x as the response to its GET a.
C35_Witness ==
    \E c, d \in Conns :
        /\ c # d
        /\ pc[c] = "closed" /\ result[c] = Some(Err(StreamNotWritable))
        /\ outbox[c] = <<>>
        /\ LastIsSetBy(Ka, c) /\ lastWrite[Ka].args = <<Ka, Vx>>
        /\ Ka \in DOMAIN store /\ store[Ka] = Vx
        /\ pc[d] = "write_all" /\ command[d] = GET /\ response[d] = Vx

\* The operations recorded in h for connection c.
OpsBy(h, c) == { k \in DOMAIN h : h[k].conn = c }

\* C36: closed is absorbing.  A handler that has returned, at the end of the
\* stream or on a failed read or write, is closed, holds no lock and has no
\* line in hand, and from then on nothing of it changes: it takes no lock,
\* applies no operation and writes nothing; the step in which it returns
\* leaves the store alone too.
C36_ClosedIsAbsorbing ==
    /\ [](\A c \in Conns :
            result[c] # None =>
                /\ pc[c] = "closed" /\ holder # c
                /\ line[c] = <<>> /\ command[c] = <<>> /\ inbox[c] = <<>>)
    /\ [][\A c \in Conns :
            /\ result[c] # None =>
                  /\ pc'[c] = pc[c] /\ result'[c] = result[c]
                  /\ outbox'[c] = outbox[c]
                  /\ holder' # c
                  /\ \A k \in OpsBy(lastLock', c) :
                        k \in DOMAIN lastLock /\ lastLock'[k] = lastLock[k]
                  /\ \A k \in OpsBy(lastWrite', c) :
                        k \in DOMAIN lastWrite /\ lastWrite'[k] = lastWrite[k]
            /\ (result[c] = None /\ result'[c] \in { Some(Ok(Unit)),
                                                    Some(Err(StreamNotReadable)),
                                                    Some(Err(StreamNotWritable)) }) =>
                  store' = store /\ lastWrite' = lastWrite]_vars

\* A connection sent FOO and then SET a x.  Writing the response to FOO
\* failed; every handler has returned since, the client has got nothing, and
\* no SET was ever applied.
C36_Witness ==
    \E c \in Conns :
        /\ pipelined[c] = << <<"F","O","O","\n">>,
                             <<"S","E","T"," ","a"," ","x","\n">> >>
        /\ result[c] = Some(Err(StreamNotWritable)) /\ outbox[c] = <<>>
        /\ \A d \in Conns : pc[d] = "closed"
        /\ lastLock = EmptyMap /\ store = EmptyMap

\* C37: a GET k response of nil means that k is absent: when k is in the
\* store as the GET is applied, the response is not nil.
C37_NilMeansAbsent ==
    [][\A c \in Conns :
          (Applies(c, GET) /\ args[c][1] \in DOMAIN store) => response'[c] # nil]_vars

\* C38: the lock never becomes unusable through the server's own code.  With
\* handlers that take any lines, and reads and writes that fail, the mutex is
\* never poisoned, a store call that finds the lock free takes it, no handler
\* ends by a panic or with StoreLocked, and no response, held or written, is
\* the StoreLocked message.
C38_LockStaysUsable ==
    /\ ~poisoned
    /\ \A c \in Conns :
          /\ (pc[c] = "get_store" /\ holder = 0) =>
                ENABLED (GetStore(c) /\ pc'[c] = "locked")
          /\ result[c] \in { None, Some(Ok(Unit)), Some(Err(StreamNotReadable)),
                             Some(Err(StreamNotWritable)) }
          /\ response[c] # LockedMessage
          /\ \A i \in 1..Len(outbox[c]) : outbox[c][i] # LockedMessage \o <<"\n">>

\* A connection got nil for its GET of a key that is not there and has the
\* lock for its SET now; another connection's DEL was applied and the write
\* of its response failed.
C38_Witness ==
    \E c, d \in Conns :
        /\ c # d
        /\ outbox[d] = << nil \o <<"\n">> >>
        /\ pc[d] = "locked" /\ holder = d /\ command[d] = SET
        /\ result[c] = Some(Err(StreamNotWritable))
        /\ Ka \in DOMAIN lastWrite
        /\ lastWrite[Ka].conn = c /\ lastWrite[Ka].command = DEL

\* C39: the client's loop ends when the terminal's input ends: when
\* read_input finds the end of the input, the client stops.
C39_EndOfInputStopsClient ==
    (cpc = "read_input" /\ stdin = <<>>) => ENABLED (ReadInput /\ cpc' = "done")

\* Line l lacks its newline.
Unterminated(l) == l[Len(l)] # "\n"

\* The lines ls, each ended by a newline.
Terminated(ls) ==
    [i \in 1..Len(ls) |-> IF Unterminated(ls[i]) THEN ls[i] \o <<"\n">> ELSE ls[i]]

\* C40: a last line that comes without a newline before the stream ends is a
\* command like any other.  The handler takes it and is not closed by it; it
\* has the command and the arguments of the line; a handler ends only at the
\* zero-length read that follows, with one response line for every line that
\* is not blank, the last one ended by a newline as all others; and where no
\* other connection has input, responses and store are those of the same
\* lines with the newline.
C40_UnterminatedLastLine ==
    /\ [](\A c \in Conns :
            result[c] # None =>
                /\ result[c] = Some(Ok(Unit))
                /\ Len(outbox[c]) = Len(NonBlank(pipelined[c]))
                /\ \A i \in 1..Len(outbox[c]) : ResponseLine(outbox[c][i])
                /\ (\A d \in Conns \ {c} : pipelined[d] = <<>>) =>
                      /\ outbox[c] = Run(Terminated(pipelined[c]), EmptyMap).out
                      /\ store = Run(Terminated(pipelined[c]), EmptyMap).map)
    /\ [][\A c \in Conns :
            (/\ pc[c] = "read_line" /\ inbox[c] # <<>>
             /\ Unterminated(Head(inbox[c]))
             /\ inbox'[c] # inbox[c]) =>
                 LET m == Meaning(Head(inbox[c]) \o <<"\n">>)
                 IN /\ inbox'[c] = <<>> /\ result'[c] = None
                    /\ m.kind = "blank" => pc'[c] = "read_line"
                    /\ m.kind = "set" =>
                          /\ pc'[c] = "get_store"
                          /\ command'[c] = SET /\ args'[c] = <<m.key, m.value>>
                    /\ m.kind = "get" =>
                          /\ pc'[c] = "get_store"
                          /\ command'[c] = GET /\ args'[c] = <<m.key>>
                    /\ m.kind = "unknown" =>
                          /\ pc'[c] = "write_all"
                          /\ response'[c] = <<"Invalid command: ">> \o m.name \o Help
            /\ (result[c] = None /\ result'[c] # None) =>
                  pc[c] = "read_line" /\ inbox[c] = <<>>]_vars

\* A connection sent SET a x with its newline and then get a without one; it
\* has got OK and x, each as a line, and its handler has returned Ok at the
\* end of the stream.
C40_Witness ==
    \E c \in Conns :
        /\ pipelined[c] = << <<"S","E","T"," ","a"," ","x","\n">>,
                             <<"g","e","t"," ","a">> >>
        /\ outbox[c] = << OK \o <<"\n">>, <<"x", "\n">> >>
        /\ pc[c] = "closed" /\ result[c] = Some(Ok(Unit))

====
